---- MODULE Spec2Model ----
(***************************************************************************)
(* Segmint: unified-diff parsing (src/src/git.ts), change assembly and the *)
(* list_changes / group_changes tool handlers of the MCP server.           *)
(*                                                                         *)
(* Strings are sequences of one-character strings, so that prefix tests    *)
(* and regular-expression matches are computed on the characters, as the   *)
(* code computes them.  A diff text is the sequence of its lines, i.e. the *)
(* result of text.split("\n"); the only line terminator in the modelled    *)
(* texts is "\n".                                                          *)
(***************************************************************************)
EXTENDS Integers, Sequences, FiniteSets, TLC

\* ------------------------------------------------------------------------
\* Bounds
\* ------------------------------------------------------------------------
\* longest text (in lines) of each input family of the parser
MaxPathLines == 4
MaxHunkLines == 6
MaxBodyLines == 4
MaxHeaderLines == 4
\* longest text (in lines) of each input family of the blame parser
MaxBlockLines == 5
MaxMetaLines == 5
MaxNestLines == 5
\* longest text (in lines) given to both parsers
MaxBlankLines == 3
\* most vectors given to the clustering engine
MaxVectors == 4
\* most file chunks in one text given to the assembler
MaxAsmChunks == 2
\* the server's repository, requests and suspended calls
MaxRepoChanges == 1
MaxIds == 2
MaxPending == 1
\* group_changes calls suspended at one time when calls overlap
MaxOverlap == 2
\* most records in one git log output
MaxLogRecords == 2
\* most tool calls one client makes
MaxToolCalls == 2

\* ------------------------------------------------------------------------
\* String literals of git.ts
\* ------------------------------------------------------------------------
DIFF_GIT == <<"d","i","f","f"," ","-","-","g","i","t"," ">>
A_SLASH == <<"a","/">>
B_SEP == <<" ","b","/">>
DEV_NULL == <<"/","d","e","v","/","n","u","l","l">>
BINARY_FILES == <<"B","i","n","a","r","y"," ","f","i","l","e","s"," ">>
DIFFER == <<" ","d","i","f","f","e","r">>
AT_AT == <<"@","@">>
HH_OPEN == <<"@","@"," ","-">>
HH_PLUS == <<" ","+">>
HH_CLOSE == <<" ","@","@">>

\* The value of a failed match / a null file path.  A matched path is never
\* empty (the pattern's groups are .+), so the empty string is free.
NULL == <<>>

\* ------------------------------------------------------------------------
\* String helpers (String.prototype.startsWith, endsWith, trim, parseInt)
\* ------------------------------------------------------------------------
StartsWith(s, p) ==
  /\ Len(s) >= Len(p)
  /\ SubSeq(s, 1, Len(p)) = p

EndsWith(s, p) ==
  /\ Len(s) >= Len(p)
  /\ SubSeq(s, Len(s) - Len(p) + 1, Len(s)) = p

\* s has p at position i (1-based)
HasAt(s, i, p) ==
  /\ i >= 1
  /\ i + Len(p) - 1 <= Len(s)
  /\ SubSeq(s, i, i + Len(p) - 1) = p

Digits == {"0","1","2","3","4","5","6","7","8","9"}

DigitVal(c) ==
  CASE c = "0" -> 0 [] c = "1" -> 1 [] c = "2" -> 2 [] c = "3" -> 3
    [] c = "4" -> 4 [] c = "5" -> 5 [] c = "6" -> 6 [] c = "7" -> 7
    [] c = "8" -> 8 [] c = "9" -> 9

RECURSIVE parseInt(_)
parseInt(ds) ==
  IF ds = <<>> THEN 0
  ELSE 10 * parseInt(SubSeq(ds, 1, Len(ds) - 1)) + DigitVal(ds[Len(ds)])

\* index just after the longest run of digits starting at i (\d+ is greedy)
RECURSIVE DigitsEnd(_, _)
DigitsEnd(s, i) ==
  IF i <= Len(s) /\ s[i] \in Digits THEN DigitsEnd(s, i + 1) ELSE i

IsBlank(line) == \A k \in 1..Len(line) : line[k] \in {" ", "\t", "\r", "\f"}

\* !diffText.trim(): the text is empty or only whitespace and newlines
trimIsEmpty(text) == \A k \in 1..Len(text) : IsBlank(text[k])

\* ------------------------------------------------------------------------
\* git.ts: parseHunks
\* ------------------------------------------------------------------------

\* /^@@ -(\d+)(?:,(\d+))? \+(\d+)(?:,(\d+))? @@(.*)$/ on one line.
\* An optional count group that did not take part is <<>> (undefined).
OptCountEnd(s, i) ==
  IF i <= Len(s) /\ s[i] = "," /\ DigitsEnd(s, i + 1) > i + 1
  THEN DigitsEnd(s, i + 1)
  ELSE i

headerMatch(line) ==
  LET e1 == DigitsEnd(line, 5)
      e2 == OptCountEnd(line, e1)
      e3 == DigitsEnd(line, e2 + 2)
      e4 == OptCountEnd(line, e3)
      ok == /\ StartsWith(line, HH_OPEN)
            /\ e1 > 5
            /\ HasAt(line, e2, HH_PLUS)
            /\ e3 > e2 + 2
            /\ HasAt(line, e4, HH_CLOSE)
  IN IF ok
     THEN [ok |-> TRUE,
           g1 |-> SubSeq(line, 5, e1 - 1),
           g2 |-> IF e2 > e1 THEN SubSeq(line, e1 + 1, e2 - 1) ELSE <<>>,
           g3 |-> SubSeq(line, e2 + 2, e3 - 1),
           g4 |-> IF e4 > e3 THEN SubSeq(line, e3 + 1, e4 - 1) ELSE <<>>]
     ELSE [ok |-> FALSE, g1 |-> <<>>, g2 |-> <<>>, g3 |-> <<>>, g4 |-> <<>>]

\* every line kept, whatever its first character
IsDiffLine_Any(line) == TRUE

\* line.startsWith(" ") || "+" || "-" || "\\"
IsDiffLine(line) ==
  \/ StartsWith(line, <<" ">>)
  \/ StartsWith(line, <<"+">>)
  \/ StartsWith(line, <<"-">>)
  \/ StartsWith(line, <<"\\">>)

\* the inner loop stopping only at a valid hunk header
RECURSIVE CollectEnd_ValidOnly(_, _)
CollectEnd_ValidOnly(lines, i) ==
  IF /\ i <= Len(lines)
     /\ ~headerMatch(lines[i]).ok
     /\ ~StartsWith(lines[i], DIFF_GIT)
  THEN CollectEnd_ValidOnly(lines, i + 1)
  ELSE i

\* the inner while loop's exit: first index >= i whose line starts with
\* "@@" or "diff --git ", or Len+1
RECURSIVE CollectEnd(_, _)
CollectEnd(lines, i) ==
  IF /\ i <= Len(lines)
     /\ ~StartsWith(lines[i], AT_AT)
     /\ ~StartsWith(lines[i], DIFF_GIT)
  THEN CollectEnd(lines, i + 1)
  ELSE i

\* "Skip to first @@ line"
RECURSIVE SkipToFirstAt(_, _)
SkipToFirstAt(lines, i) ==
  IF i <= Len(lines) /\ ~StartsWith(lines[i], AT_AT)
  THEN SkipToFirstAt(lines, i + 1)
  ELSE i

\* the new count read from the old count's group
MakeHunk_SharedCount(line, m, hunkLines) ==
  [old_start |-> parseInt(m.g1),
   old_lines |-> IF m.g2 # <<>> THEN parseInt(m.g2) ELSE 1,
   new_start |-> parseInt(m.g3),
   new_lines |-> IF m.g2 # <<>> THEN parseInt(m.g2) ELSE 1,
   header    |-> line,
   lines     |-> hunkLines]

MakeHunk(line, m, hunkLines) ==
  [old_start |-> parseInt(m.g1),
   old_lines |-> IF m.g2 # <<>> THEN parseInt(m.g2) ELSE 1,
   new_start |-> parseInt(m.g3),
   new_lines |-> IF m.g4 # <<>> THEN parseInt(m.g4) ELSE 1,
   header    |-> line,
   lines     |-> hunkLines]

\* the outer while loop of parseHunks, from index i with hunks collected
RECURSIVE HunkLoop(_, _, _)
HunkLoop(lines, i, hunks) ==
  IF i > Len(lines) THEN hunks
  ELSE LET m == headerMatch(lines[i])
       IN IF ~m.ok THEN HunkLoop(lines, i + 1, hunks)
          ELSE LET j == CollectEnd(lines, i + 1)
                   hunkLines == SelectSeq(SubSeq(lines, i + 1, j - 1), IsDiffLine)
               IN HunkLoop(lines, j, Append(hunks, MakeHunk(lines[i], m, hunkLines)))

parseHunks(chunk) == HunkLoop(chunk, SkipToFirstAt(chunk, 1), <<>>)

\* ------------------------------------------------------------------------
\* git.ts: extractFilePath, isBinaryFile, splitIntoFileChunks, parseDiff
\* ------------------------------------------------------------------------

\* /^diff --git a\/(.+) b\/(.+)$/ : the first group is greedy, so the
\* separator " b/" that splits the line is the LAST one that leaves both
\* groups non-empty.  Positions are in the line; 0 when there is no match.
PathPrefix == DIFF_GIT \o A_SLASH

SplitPositions(line) ==
  {k \in (Len(PathPrefix) + 2)..(Len(line) - Len(B_SEP)) : HasAt(line, k, B_SEP)}

SepPos(line) ==
  IF StartsWith(line, PathPrefix) /\ SplitPositions(line) # {}
  THEN CHOOSE k \in SplitPositions(line) : \A j \in SplitPositions(line) : j <= k
  ELSE 0

extractFilePath(chunk) ==
  LET firstLine == chunk[1]
      k == SepPos(firstLine)
      aPath == SubSeq(firstLine, Len(PathPrefix) + 1, k - 1)
      bPath == SubSeq(firstLine, k + Len(B_SEP), Len(firstLine))
  IN IF k = 0 THEN NULL
     ELSE IF bPath = DEV_NULL THEN aPath
     ELSE bPath

\* /^Binary files .+ differ$/m
IsBinaryLine(line) ==
  /\ StartsWith(line, BINARY_FILES)
  /\ EndsWith(line, DIFFER)
  /\ Len(line) >= Len(BINARY_FILES) + 1 + Len(DIFFER)

\* no chunk taken for binary
isBinaryFile_Never(chunk) == FALSE

isBinaryFile(chunk) == \E k \in 1..Len(chunk) : IsBinaryLine(chunk[k])

\* diffText.split(/^diff --git /m).slice(1).map(p => "diff --git " + p),
\* each chunk then split on "\n": a chunk that is followed by another one
\* ends with the newline before the next marker, so its split has a final
\* empty line.
MarkerLines(text) == {k \in 1..Len(text) : StartsWith(text[k], DIFF_GIT)}

ChunkEnd(text, k) ==
  IF \E j \in MarkerLines(text) : j > k
  THEN (CHOOSE j \in MarkerLines(text) : j > k /\ \A q \in MarkerLines(text) : q > k => j <= q) - 1
  ELSE Len(text)

RECURSIVE ChunksFrom(_, _)
ChunksFrom(text, k) ==
  IF k > Len(text) THEN <<>>
  ELSE IF ~StartsWith(text[k], DIFF_GIT) THEN ChunksFrom(text, k + 1)
  ELSE LET e == ChunkEnd(text, k)
           body == SubSeq(text, k, e)
       IN <<IF e < Len(text) THEN Append(body, <<>>) ELSE body>>
            \o ChunksFrom(text, e + 1)

splitIntoFileChunks(text) == ChunksFrom(text, 1)

\* each entry put in front of the earlier ones
RECURSIVE ChunkLoop_Prepend(_, _, _)
ChunkLoop_Prepend(chunks, c, results) ==
  IF c > Len(chunks) THEN results
  ELSE LET chunk == chunks[c]
           filePath == extractFilePath(chunk)
           hunks == parseHunks(chunk)
       IN IF filePath = NULL THEN ChunkLoop_Prepend(chunks, c + 1, results)
          ELSE IF isBinaryFile(chunk) THEN ChunkLoop_Prepend(chunks, c + 1, results)
          ELSE IF Len(hunks) = 0 THEN ChunkLoop_Prepend(chunks, c + 1, results)
          ELSE ChunkLoop_Prepend(chunks, c + 1,
                         <<[file_path |-> filePath, hunks |-> hunks]>> \o results)

RECURSIVE ChunkLoop(_, _, _)
ChunkLoop(chunks, c, results) ==
  IF c > Len(chunks) THEN results
  ELSE LET chunk == chunks[c]
           filePath == extractFilePath(chunk)
           hunks == parseHunks(chunk)
       IN IF filePath = NULL THEN ChunkLoop(chunks, c + 1, results)
          ELSE IF isBinaryFile(chunk) THEN ChunkLoop(chunks, c + 1, results)
          ELSE IF Len(hunks) = 0 THEN ChunkLoop(chunks, c + 1, results)
          ELSE ChunkLoop(chunks, c + 1,
                         Append(results, [file_path |-> filePath, hunks |-> hunks]))

parseDiff(diffText) ==
  IF trimIsEmpty(diffText) THEN <<>>
  ELSE ChunkLoop(splitIntoFileChunks(diffText), 1, <<>>)

\* ------------------------------------------------------------------------
\* git.ts: getUncommittedChanges, lines 58-83 (merge, sort, identifiers)
\* ------------------------------------------------------------------------
CHANGE_PREFIX == <<"c","h","a","n","g","e","-">>

\* Number.prototype.toString for a positive integer
DigitChar(d) ==
  CASE d = 0 -> "0" [] d = 1 -> "1" [] d = 2 -> "2" [] d = 3 -> "3"
    [] d = 4 -> "4" [] d = 5 -> "5" [] d = 6 -> "6" [] d = 7 -> "7"
    [] d = 8 -> "8" [] d = 9 -> "9"

RECURSIVE ToDecimal(_)
ToDecimal(n) ==
  IF n < 10 THEN <<DigitChar(n)>>
  ELSE Append(ToDecimal(n \div 10), DigitChar(n % 10))

\* the identifier numbered from 0 instead of 1
ChangeId_ZeroBased(index) == CHANGE_PREFIX \o ToDecimal(index)

\* `change-${index + 1}` for the 0-based index
ChangeId(index) == CHANGE_PREFIX \o ToDecimal(index + 1)

\* The locales of the runtime.  String.prototype.localeCompare collates with
\* the default locale's rules: letters compare first without regard to case
\* (primary weight), and case breaks ties; in "en" the lower-case letter
\* sorts first, in "da" (caseFirst upper) the upper-case one does.
Locales == {"en", "da"}

\* primary collation weight of the characters that occur in paths:
\* white space and punctuation sort before letters, letters alphabetically
Primary(c) ==
  CASE c = " " -> 1 [] c = "/" -> 2
    [] c \in {"a", "A"} -> 10 [] c \in {"b", "B"} -> 11
    [] c \in {"d", "D"} -> 13 [] c \in {"e", "E"} -> 14
    [] c \in {"l", "L"} -> 21 [] c \in {"n", "N"} -> 23
    [] c \in {"u", "U"} -> 30 [] c \in {"v", "V"} -> 31
    [] c \in {"x", "X"} -> 33 [] c \in {"y", "Y"} -> 34

IsUpper(c) == c \in {"A", "B", "D", "E", "L", "N", "U", "V", "X", "Y"}

\* tertiary (case) weight under a locale
CaseWeight(c, loc) ==
  IF loc = "da"
  THEN (IF IsUpper(c) THEN 0 ELSE 1)
  ELSE (IF IsUpper(c) THEN 1 ELSE 0)

\* lexicographic comparison of two weight sequences: -1, 0 or 1
RECURSIVE CompareWeights(_, _)
CompareWeights(u, w) ==
  IF u = <<>> /\ w = <<>> THEN 0
  ELSE IF u = <<>> THEN -1
  ELSE IF w = <<>> THEN 1
  ELSE IF Head(u) < Head(w) THEN -1
  ELSE IF Head(u) > Head(w) THEN 1
  ELSE CompareWeights(Tail(u), Tail(w))

\* a.localeCompare(b) under the runtime locale
localeCompare(a, b, loc) ==
  LET p == CompareWeights([k \in 1..Len(a) |-> Primary(a[k])],
                          [k \in 1..Len(b) |-> Primary(b[k])])
  IN IF p # 0 THEN p
     ELSE CompareWeights([k \in 1..Len(a) |-> CaseWeight(a[k], loc)],
                         [k \in 1..Len(b) |-> CaseWeight(b[k], loc)])

\* Array.prototype.sort with the comparator: a stable sort
RECURSIVE InsertSorted(_, _, _)
InsertSorted(sorted, x, loc) ==
  IF sorted = <<>> THEN <<x>>
  ELSE IF localeCompare(Head(sorted), x, loc) <= 0
       THEN <<Head(sorted)>> \o InsertSorted(Tail(sorted), x, loc)
       ELSE <<x>> \o sorted

\* the keys left in insertion order
SortPaths_Unsorted(paths, loc) == paths

RECURSIVE SortPaths(_, _)
SortPaths(paths, loc) ==
  IF paths = <<>> THEN <<>>
  ELSE InsertSorted(SortPaths(SubSeq(paths, 1, Len(paths) - 1), loc),
                    paths[Len(paths)], loc)

\* Map<string, Hunk[]> as the sequence of its entries in insertion order
MapHas(m, key) == \E k \in 1..Len(m) : m[k].file_path = key

MapGet(m, key) == m[CHOOSE k \in 1..Len(m) : m[k].file_path = key].hunks

\* Map.prototype.set: a present key keeps its place and gets the new value
MapSet(m, key, val) ==
  IF MapHas(m, key)
  THEN [k \in 1..Len(m) |->
          IF m[k].file_path = key THEN [file_path |-> key, hunks |-> val] ELSE m[k]]
  ELSE Append(m, [file_path |-> key, hunks |-> val])

\* for (const entry of staged) merged.set(entry.file_path, [...entry.hunks])
RECURSIVE MergeStaged(_, _)
MergeStaged(merged, staged) ==
  IF staged = <<>> THEN merged
  ELSE MergeStaged(MapSet(merged, Head(staged).file_path, Head(staged).hunks),
                   Tail(staged))

\* for (const entry of unstaged): push onto the existing array, or set
RECURSIVE MergeUnstaged(_, _)
MergeUnstaged(merged, unstaged) ==
  IF unstaged = <<>> THEN merged
  ELSE LET entry == Head(unstaged)
       IN MergeUnstaged(
            IF MapHas(merged, entry.file_path)
            THEN MapSet(merged, entry.file_path,
                        MapGet(merged, entry.file_path) \o entry.hunks)
            ELSE MapSet(merged, entry.file_path, entry.hunks),
            Tail(unstaged))

MapKeys(m) == [k \in 1..Len(m) |-> m[k].file_path]

\* lines 58-83: parse both texts, merge, sort the paths, number the changes
AssembleChanges(stagedText, unstagedText, loc) ==
  LET staged == parseDiff(stagedText)
      unstaged == parseDiff(unstagedText)
      merged == MergeUnstaged(MergeStaged(<<>>, staged), unstaged)
      sortedPaths == SortPaths(MapKeys(merged), loc)
  IN [k \in 1..Len(sortedPaths) |->
        [id |-> ChangeId(k - 1),
         file_path |-> sortedPaths[k],
         hunks |-> MapGet(merged, sortedPaths[k])]]

\* throwGitError: the message of the Error thrown for a failed git run
\* (stderr || err.message of the failed run; "none" is a run that succeeded)
GitFailures ==
  {"fatal: not a git repository", "spawn git ENOENT", "fatal: bad object", ""}

throwGitError(msg) ==
  CASE msg = "fatal: not a git repository" -> "Not a git repository"
    [] msg = "spawn git ENOENT" -> "git command not found. Please install git."
    [] msg = "" -> "Unknown git error"
    [] OTHER -> msg

\* getUncommittedChanges given what the two git runs do: the first failure
\* is thrown, otherwise the assembled changes are returned
getUncommittedChanges(stagedRun, unstagedRun, loc) ==
  IF stagedRun.failure # "none"
  THEN [ok |-> FALSE, message |-> throwGitError(stagedRun.failure), changes |-> <<>>]
  ELSE IF unstagedRun.failure # "none"
  THEN [ok |-> FALSE, message |-> throwGitError(unstagedRun.failure), changes |-> <<>>]
  ELSE [ok |-> TRUE, message |-> "",
        changes |-> AssembleChanges(stagedRun.stdout, unstagedRun.stdout, loc)]

\* ------------------------------------------------------------------------
\* changes.ts, cluster.ts, embeddings.ts: resolution, embedding text and
\* clustering, as used by the group_changes handler
\* ------------------------------------------------------------------------
GROUP_PREFIX == <<"g","r","o","u","p","-">>
SIMILARITY_NUM == 4
SIMILARITY_DEN == 5
EMBED_MAX_LINES == 200

\* only the first string
Join_FirstOnly(strs, sep) == IF strs = <<>> THEN <<>> ELSE strs[1]

\* Array.prototype.join over strings
RECURSIVE Join(_, _)
Join(strs, sep) ==
  IF strs = <<>> THEN <<>>
  ELSE IF Len(strs) = 1 THEN strs[1]
  ELSE strs[1] \o sep \o Join(Tail(strs), sep)

COMMA_SPACE == <<",", " ">>

\* resolveChangeIds: the current changes whose id was requested, in
\* assembled order, and the requested ids that no current change carries
resolveChangeIds(all, change_ids) ==
  LET requested(c) == \E k \in 1..Len(change_ids) : change_ids[k] = c.id
      known(id) == \E k \in 1..Len(all) : all[k].id = id
      unknownId(id) == ~known(id)
  IN [changes |-> SelectSeq(all, requested),
      unknown |-> SelectSeq(change_ids, unknownId)]

\* buildEmbeddingText: path, then each hunk's header and lines, at most
\* EMBED_MAX_LINES content lines in all
RECURSIVE EmbedHunks(_, _)
EmbedHunks(hunks, room) ==
  IF hunks = <<>> THEN <<>>
  ELSE LET h == Head(hunks)
           take == IF Len(h.lines) <= room THEN Len(h.lines) ELSE room
       IN <<h.header>> \o SubSeq(h.lines, 1, take)
            \o EmbedHunks(Tail(hunks), room - take)

buildEmbeddingText(change) ==
  <<change.file_path>> \o EmbedHunks(change.hunks, EMBED_MAX_LINES)

RECURSIVE Dot(_, _)
Dot(u, v) ==
  IF u = <<>> THEN 0 ELSE Head(u) * Head(v) + Dot(Tail(u), Tail(v))

AddVec(u, v) == [k \in 1..Len(u) |-> u[k] + v[k]]

\* cosineSimilarity as the exact ratio d / sqrt(n); 0 when a magnitude is 0
cosineSimilarity(u, v) ==
  IF Dot(u, u) = 0 \/ Dot(v, v) = 0
  THEN [d |-> 0, n |-> 1]
  ELSE [d |-> Dot(u, v), n |-> Dot(u, u) * Dot(v, v)]

SignedSquare(x) == IF x >= 0 THEN x * x ELSE 0 - (x * x)

\* s >= t for two similarities
SimGE(s, t) == SignedSquare(s.d) * t.n >= SignedSquare(t.d) * s.n

\* the latest of the most similar clusters
RECURSIVE BestCluster_LastWins(_, _, _, _)
BestCluster_LastWins(clusters, v, c, best) ==
  IF c > Len(clusters) THEN best
  ELSE IF ~SimGE(cosineSimilarity(v, clusters[c].sum),
                 cosineSimilarity(v, clusters[best].sum))
       THEN BestCluster_LastWins(clusters, v, c + 1, best)
       ELSE BestCluster_LastWins(clusters, v, c + 1, c)

\* index of the cluster whose centroid is most similar to v; the earliest
\* cluster wins a tie.  The centroid is sum/count, and the cosine does not
\* depend on the positive factor 1/count.
RECURSIVE BestCluster(_, _, _, _)
BestCluster(clusters, v, c, best) ==
  IF c > Len(clusters) THEN best
  ELSE IF SimGE(cosineSimilarity(v, clusters[best].sum),
                cosineSimilarity(v, clusters[c].sum))
       THEN BestCluster(clusters, v, c + 1, best)
       ELSE BestCluster(clusters, v, c + 1, c)

RECURSIVE ClusterLoop(_, _, _)
ClusterLoop(embeddings, i, clusters) ==
  IF i > Len(embeddings) THEN clusters
  ELSE LET v == embeddings[i]
           newCluster == [indices |-> <<i - 1>>, sum |-> v]
       IN IF clusters = <<>>
          THEN ClusterLoop(embeddings, i + 1, <<newCluster>>)
          ELSE LET b == BestCluster(clusters, v, 2, 1)
               IN IF SimGE(cosineSimilarity(v, clusters[b].sum),
                           [d |-> SIMILARITY_NUM, n |-> SIMILARITY_DEN * SIMILARITY_DEN])
                  THEN ClusterLoop(embeddings, i + 1,
                         [clusters EXCEPT ![b] =
                            [indices |-> Append(@.indices, i - 1),
                             sum |-> AddVec(@.sum, v)]])
                  ELSE ClusterLoop(embeddings, i + 1, Append(clusters, newCluster))

clusterByThreshold(embeddings) == ClusterLoop(embeddings, 1, <<>>)

\* ------------------------------------------------------------------------
\* index.ts: the list_changes and group_changes handlers
\* ------------------------------------------------------------------------
ErrorResult(fragments) ==
  [isError |-> TRUE, text |-> fragments, changes |-> <<>>, groups |-> <<>>]

\* list_changes after loadChanges() returned or threw
ListChangesResult(loaded) ==
  IF loaded.ok
  THEN [isError |-> FALSE, text |-> <<>>, changes |-> loaded.changes, groups |-> <<>>]
  ELSE ErrorResult(<<loaded.message>>)

ChangesIn(path) == <<"Changes in ">> \o path

\* getEmbeddingProvider: throws when no provider is configured
NO_PROVIDER_MESSAGE == "OPENAI_API_KEY is not set"

getEmbeddingProvider(hasProviderKey) ==
  IF hasProviderKey
  THEN [ok |-> TRUE, message |-> ""]
  ELSE [ok |-> FALSE, message |-> NO_PROVIDER_MESSAGE]

\* the shortcut never taken
IsSingleChange_Never(changes) == FALSE

\* changes.length === 1
IsSingleChange(changes) == Len(changes) = 1

\* the label numbered from 0 instead of 1
GroupId_ZeroBased(idx) == GROUP_PREFIX \o ToDecimal(idx)

\* `group-${idx + 1}` for the 0-based index
GroupId(idx) == GROUP_PREFIX \o ToDecimal(idx + 1)

\* the first member's id only
GroupOf_FirstOnly(cluster, idx, changes) ==
  LET clusterChanges == [k \in 1..Len(cluster.indices) |-> changes[cluster.indices[k] + 1]]
      filePaths == [k \in 1..Len(clusterChanges) |-> clusterChanges[k].file_path]
  IN [id |-> GroupId(idx),
      change_ids |-> <<clusterChanges[1].id>>,
      summary |-> IF Len(filePaths) = 1
                  THEN ChangesIn(filePaths[1])
                  ELSE <<"Related changes across ">> \o Join(filePaths, COMMA_SPACE)]

GroupOf(cluster, idx, changes) ==
  LET clusterChanges == [k \in 1..Len(cluster.indices) |-> changes[cluster.indices[k] + 1]]
      filePaths == [k \in 1..Len(clusterChanges) |-> clusterChanges[k].file_path]
  IN [id |-> GroupId(idx),
      change_ids |-> [k \in 1..Len(clusterChanges) |-> clusterChanges[k].id],
      summary |-> IF Len(filePaths) = 1
                  THEN ChangesIn(filePaths[1])
                  ELSE <<"Related changes across ">> \o Join(filePaths, COMMA_SPACE)]

GroupsResult(groups) ==
  [isError |-> FALSE, text |-> <<>>, changes |-> <<>>, groups |-> groups]

\* how many times a group_changes call has called getEmbeddingProvider,
\* provider.embed and clusterByThreshold
Calls(p, e, c) == [provider |-> p, embed |-> e, cluster |-> c]

\* the shortcut widened to a request that resolves to no change: it is
\* answered without groups before the provider is obtained
GroupChangesSync_EmptyShortcut(loaded, change_ids, hasProviderKey) ==
  IF ~loaded.ok
  THEN [suspend |-> FALSE, outcome |-> "git-failed", current |-> <<>>,
        resolved |-> <<>>, unknown |-> <<>>, calls |-> Calls(0, 0, 0),
        thrown |-> loaded.message,
        result |-> ErrorResult(<<loaded.message>>)]
  ELSE LET r == resolveChangeIds(loaded.changes, change_ids)
           provider == getEmbeddingProvider(hasProviderKey)
           seen == [current |-> MapKeys(loaded.changes),
                    resolved |-> r.changes, unknown |-> r.unknown]
       IN IF Len(r.unknown) > 0
          THEN [suspend |-> FALSE, outcome |-> "unknown-ids", calls |-> Calls(0, 0, 0),
                thrown |-> "",
                result |-> ErrorResult(<<"Unknown change IDs: ">> \o Join(r.unknown, COMMA_SPACE))]
                 @@ seen
          ELSE IF r.changes = <<>>
          THEN [suspend |-> FALSE, outcome |-> "single", calls |-> Calls(0, 0, 0),
                thrown |-> "",
                result |-> GroupsResult(<<>>)]
                 @@ seen
          ELSE IF IsSingleChange(r.changes)
          THEN [suspend |-> FALSE, outcome |-> "single", calls |-> Calls(0, 0, 0),
                thrown |-> "",
                result |-> GroupsResult(
                  <<[id |-> <<"g","r","o","u","p","-","1">>,
                     change_ids |-> <<r.changes[1].id>>,
                     summary |-> ChangesIn(r.changes[1].file_path)]>>)]
                 @@ seen
          ELSE IF ~provider.ok
          THEN [suspend |-> FALSE, outcome |-> "no-provider", calls |-> Calls(1, 0, 0),
                thrown |-> provider.message,
                result |-> ErrorResult(<<provider.message>>)]
                 @@ seen
          ELSE [suspend |-> TRUE, outcome |-> "awaiting", calls |-> Calls(1, 1, 0),
                thrown |-> "",
                result |-> GroupsResult(<<>>)]
                 @@ seen

\* group_changes up to its await: the response, or the suspension of the
\* call on provider.embed with the resolved changes.  outcome names the
\* branch taken; current, resolved and unknown record what resolution saw.
GroupChangesSync(loaded, change_ids, hasProviderKey) ==
  IF ~loaded.ok
  THEN [suspend |-> FALSE, outcome |-> "git-failed", current |-> <<>>,
        resolved |-> <<>>, unknown |-> <<>>, calls |-> Calls(0, 0, 0),
        thrown |-> loaded.message,
        result |-> ErrorResult(<<loaded.message>>)]
  ELSE LET r == resolveChangeIds(loaded.changes, change_ids)
           provider == getEmbeddingProvider(hasProviderKey)
           seen == [current |-> MapKeys(loaded.changes),
                    resolved |-> r.changes, unknown |-> r.unknown]
       IN IF Len(r.unknown) > 0
          THEN [suspend |-> FALSE, outcome |-> "unknown-ids", calls |-> Calls(0, 0, 0),
                thrown |-> "",
                result |-> ErrorResult(<<"Unknown change IDs: ">> \o Join(r.unknown, COMMA_SPACE))]
                 @@ seen
          ELSE IF IsSingleChange(r.changes)
          THEN [suspend |-> FALSE, outcome |-> "single", calls |-> Calls(0, 0, 0),
                thrown |-> "",
                result |-> GroupsResult(
                  <<[id |-> <<"g","r","o","u","p","-","1">>,
                     change_ids |-> <<r.changes[1].id>>,
                     summary |-> ChangesIn(r.changes[1].file_path)]>>)]
                 @@ seen
          ELSE IF ~provider.ok
          THEN [suspend |-> FALSE, outcome |-> "no-provider", calls |-> Calls(1, 0, 0),
                thrown |-> provider.message,
                result |-> ErrorResult(<<provider.message>>)]
                 @@ seen
          ELSE [suspend |-> TRUE, outcome |-> "awaiting", calls |-> Calls(1, 1, 0),
                thrown |-> "",
                result |-> GroupsResult(<<>>)]
                 @@ seen

\* the rejection turned into a response without groups that is no error
GroupChangesResume_Swallow(changes, settled) ==
  IF settled.rejected
  THEN GroupsResult(<<>>)
  ELSE LET clusters == clusterByThreshold(settled.embeddings)
       IN GroupsResult([c \in 1..Len(clusters) |-> GroupOf(clusters[c], c - 1, changes)])

\* group_changes after its await settled
GroupChangesResume(changes, settled) ==
  IF settled.rejected
  THEN ErrorResult(<<settled.message>>)
  ELSE LET clusters == clusterByThreshold(settled.embeddings)
       IN GroupsResult([c \in 1..Len(clusters) |-> GroupOf(clusters[c], c - 1, changes)])

\* ------------------------------------------------------------------------
\* blame.ts: parseBlamePorcelain
\* ------------------------------------------------------------------------
SHA_LEN == 40
SHORT_SHA_LEN == 7
HexChars == Digits \cup {"a", "b", "c", "d", "e", "f"}

\* the characters of a line that \s matches ("\n" ends a line)
WsChars == {" ", "\t", "\r", "\f"}

TAB == <<"\t">>
KEY_AUTHOR == <<"a","u","t","h","o","r"," ">>
KEY_AUTHOR_MAIL == <<"a","u","t","h","o","r","-","m","a","i","l"," ">>
KEY_AUTHOR_TIME == <<"a","u","t","h","o","r","-","t","i","m","e"," ">>
KEY_SUMMARY == <<"s","u","m","m","a","r","y"," ">>

\* String.prototype.substring(n): the string without its first n characters
Substring(s, n) == SubSeq(s, n + 1, Len(s))

\* index just after the longest run of \s characters starting at i
RECURSIVE WsEnd(_, _)
WsEnd(s, i) ==
  IF i <= Len(s) /\ s[i] \in WsChars THEN WsEnd(s, i + 1) ELSE i

\* every line taken for a block header
blameHeaderMatch_AnyLine(line) ==
  [ok |-> TRUE, sha |-> [k \in 1..SHA_LEN |-> "0"], g3 |-> <<>>]

\* /^([0-9a-f]{40})\s+(\d+)\s+(\d+)(?:\s+\d+)?$/ on one line
blameHeaderMatch(line) ==
  LET w1 == WsEnd(line, SHA_LEN + 1)
      d1 == DigitsEnd(line, w1)
      w2 == WsEnd(line, d1)
      d2 == DigitsEnd(line, w2)
      w3 == WsEnd(line, d2)
      d3 == DigitsEnd(line, w3)
      ok == /\ Len(line) >= SHA_LEN
            /\ \A k \in 1..SHA_LEN : line[k] \in HexChars
            /\ w1 > SHA_LEN + 1
            /\ d1 > w1
            /\ w2 > d1
            /\ d2 > w2
            /\ \/ d2 = Len(line) + 1
               \/ (w3 > d2 /\ d3 > w3 /\ d3 = Len(line) + 1)
  IN IF ok
     THEN [ok |-> TRUE, sha |-> SubSeq(line, 1, SHA_LEN), g3 |-> SubSeq(line, w2, d2 - 1)]
     ELSE [ok |-> FALSE, sha |-> <<>>, g3 |-> <<>>]

\* .replace(/^<|>$/g, "")
StripAngles(s) ==
  LET from == IF StartsWith(s, <<"<">>) THEN 2 ELSE 1
      to == IF EndsWith(s, <<">">>) THEN Len(s) - 1 ELSE Len(s)
  IN SubSeq(s, from, to)

\* parseInt(s, 10) of a metadata value: white space, then an optional sign,
\* then the longest run of digits; NaN when there is no digit there
parseIntPrefix(s) ==
  LET w == WsEnd(s, 1)
      signed == w <= Len(s) /\ s[w] \in {"+", "-"}
      from == IF signed THEN w + 1 ELSE w
      to == DigitsEnd(s, from)
  IN IF to = from
     THEN [nan |-> TRUE, neg |-> FALSE, abs |-> 0]
     ELSE [nan |-> FALSE, neg |-> signed /\ s[w] = "-",
           abs |-> parseInt(SubSeq(s, from, to - 1))]

Pad2(n) == <<DigitChar(n \div 10), DigitChar(n % 10)>>
Pad4(n) == Pad2(n \div 100) \o Pad2(n % 100)

\* new Date(unixSeconds * 1000).toISOString() for a number of seconds of
\* magnitude below 2^31 (years 1901 to 2038): the UTC calendar date and
\* time of day, with milliseconds 000
ToISOString(unixSeconds) ==
  LET days == unixSeconds \div 86400
      secs == unixSeconds % 86400
      z == days + 719468
      era == z \div 146097
      doe == z - era * 146097
      yoe == (doe - doe \div 1460 + doe \div 36524 - doe \div 146096) \div 365
      doy == doe - (365 * yoe + yoe \div 4 - yoe \div 100)
      mp == (5 * doy + 2) \div 153
      day == doy - (153 * mp + 2) \div 5 + 1
      month == IF mp < 10 THEN mp + 3 ELSE mp - 9
      year == yoe + era * 400 + (IF month <= 2 THEN 1 ELSE 0)
  IN Pad4(year) \o <<"-">> \o Pad2(month) \o <<"-">> \o Pad2(day) \o <<"T">>
       \o Pad2(secs \div 3600) \o <<":">> \o Pad2((secs % 3600) \div 60)
       \o <<":">> \o Pad2(secs % 60) \o <<".","0","0","0","Z">>

\* the locals of one block, before any metadata line is read
NewBlock(sha, finalLine) ==
  [line_number |-> finalLine,
   content |-> <<>>,
   commit |-> [sha |-> sha,
               short_sha |-> SubSeq(sha, 1, SHORT_SHA_LEN),
               author_name |-> <<>>, author_email |-> <<>>,
               author_time |-> <<>>, summary |-> <<>>]]

\* the inner loop also ends, without taking the line, at a line that
\* matches the header pattern
RECURSIVE BlameMeta_StopAtHeader(_, _, _)
BlameMeta_StopAtHeader(rawLines, i, block) ==
  IF i > Len(rawLines) THEN [i |-> i, block |-> block, threw |-> FALSE]
  ELSE LET line == rawLines[i]
       IN IF StartsWith(line, TAB)
          THEN [i |-> i + 1, block |-> [block EXCEPT !.content = Substring(line, 1)],
                threw |-> FALSE]
          ELSE IF blameHeaderMatch(line).ok
          THEN [i |-> i, block |-> block, threw |-> FALSE]
          ELSE IF StartsWith(line, KEY_AUTHOR)
          THEN BlameMeta_StopAtHeader(rawLines, i + 1,
                         [block EXCEPT !.commit.author_name = Substring(line, Len(KEY_AUTHOR))])
          ELSE IF StartsWith(line, KEY_AUTHOR_MAIL)
          THEN BlameMeta_StopAtHeader(rawLines, i + 1,
                         [block EXCEPT !.commit.author_email =
                            StripAngles(Substring(line, Len(KEY_AUTHOR_MAIL)))])
          ELSE IF StartsWith(line, KEY_AUTHOR_TIME)
          THEN LET n == parseIntPrefix(Substring(line, Len(KEY_AUTHOR_TIME)))
               IN IF n.nan
                  THEN [i |-> i, block |-> block, threw |-> TRUE]
                  ELSE BlameMeta_StopAtHeader(rawLines, i + 1,
                                 [block EXCEPT !.commit.author_time =
                                    ToISOString(IF n.neg THEN 0 - n.abs ELSE n.abs)])
          ELSE IF StartsWith(line, KEY_SUMMARY)
          THEN BlameMeta_StopAtHeader(rawLines, i + 1,
                         [block EXCEPT !.commit.summary = Substring(line, Len(KEY_SUMMARY))])
          ELSE BlameMeta_StopAtHeader(rawLines, i + 1, block)

\* the inner while loop: metadata lines up to the tab-prefixed line or the
\* end of the input.  threw: toISOString raised RangeError (NaN time value)
RECURSIVE BlameMeta(_, _, _)
BlameMeta(rawLines, i, block) ==
  IF i > Len(rawLines) THEN [i |-> i, block |-> block, threw |-> FALSE]
  ELSE LET line == rawLines[i]
       IN IF StartsWith(line, TAB)
          THEN [i |-> i + 1, block |-> [block EXCEPT !.content = Substring(line, 1)],
                threw |-> FALSE]
          ELSE IF StartsWith(line, KEY_AUTHOR)
          THEN BlameMeta(rawLines, i + 1,
                         [block EXCEPT !.commit.author_name = Substring(line, Len(KEY_AUTHOR))])
          ELSE IF StartsWith(line, KEY_AUTHOR_MAIL)
          THEN BlameMeta(rawLines, i + 1,
                         [block EXCEPT !.commit.author_email =
                            StripAngles(Substring(line, Len(KEY_AUTHOR_MAIL)))])
          ELSE IF StartsWith(line, KEY_AUTHOR_TIME)
          THEN LET n == parseIntPrefix(Substring(line, Len(KEY_AUTHOR_TIME)))
               IN IF n.nan
                  THEN [i |-> i, block |-> block, threw |-> TRUE]
                  ELSE BlameMeta(rawLines, i + 1,
                                 [block EXCEPT !.commit.author_time =
                                    ToISOString(IF n.neg THEN 0 - n.abs ELSE n.abs)])
          ELSE IF StartsWith(line, KEY_SUMMARY)
          THEN BlameMeta(rawLines, i + 1,
                         [block EXCEPT !.commit.summary = Substring(line, Len(KEY_SUMMARY))])
          ELSE BlameMeta(rawLines, i + 1, block)

\* the metadata locals of a block start from the values of the block before
RECURSIVE BlameLoop_CarryOver(_, _, _)
BlameLoop_CarryOver(rawLines, i, lines) ==
  IF i > Len(rawLines) THEN [threw |-> FALSE, lines |-> lines]
  ELSE LET m == blameHeaderMatch(rawLines[i])
           fresh == NewBlock(m.sha, parseInt(m.g3))
           start == IF lines = <<>> THEN fresh
                    ELSE [fresh EXCEPT
                            !.commit.author_name = lines[Len(lines)].commit.author_name,
                            !.commit.author_email = lines[Len(lines)].commit.author_email,
                            !.commit.author_time = lines[Len(lines)].commit.author_time,
                            !.commit.summary = lines[Len(lines)].commit.summary]
       IN IF ~m.ok THEN BlameLoop_CarryOver(rawLines, i + 1, lines)
          ELSE LET r == BlameMeta(rawLines, i + 1, start)
               IN IF r.threw THEN [threw |-> TRUE, lines |-> <<>>]
                  ELSE BlameLoop_CarryOver(rawLines, r.i, Append(lines, r.block))

\* the outer while loop, from index i with the records pushed so far
RECURSIVE BlameLoop(_, _, _)
BlameLoop(rawLines, i, lines) ==
  IF i > Len(rawLines) THEN [threw |-> FALSE, lines |-> lines]
  ELSE LET m == blameHeaderMatch(rawLines[i])
       IN IF ~m.ok THEN BlameLoop(rawLines, i + 1, lines)
          ELSE LET r == BlameMeta(rawLines, i + 1, NewBlock(m.sha, parseInt(m.g3)))
               IN IF r.threw THEN [threw |-> TRUE, lines |-> <<>>]
                  ELSE BlameLoop(rawLines, r.i, Append(lines, r.block))

\* a text whose first line is no block header is given up as a whole
parseBlamePorcelain_HeaderFirst(raw) ==
  IF raw # <<>> /\ ~blameHeaderMatch(raw[1]).ok
  THEN [threw |-> FALSE, lines |-> <<>>]
  ELSE BlameLoop(raw, 1, <<>>)

parseBlamePorcelain(raw) == BlameLoop(raw, 1, <<>>)

\* ------------------------------------------------------------------------
\* history.ts: getLog and parseLogOutput.  A text is the sequence of its
\* characters; NUL stands for the character \0
\* ------------------------------------------------------------------------
NUL == "NUL"
NL == "\n"
DEFAULT_LIMIT == 20
MIN_LIMIT == 1
MAX_LIMIT == 200
LOG_FIELDS == 7

\* a JavaScript number: a fraction num/den with den > 0, NaN, Infinity or
\* -Infinity; "absent" is undefined
Num(n) == [kind |-> "finite", num |-> n, den |-> 1]
Frac(n, d) == [kind |-> "finite", num |-> n, den |-> d]
NaN == [kind |-> "nan", num |-> 0, den |-> 1]
PosInfinity == [kind |-> "inf", num |-> 0, den |-> 1]
NegInfinity == [kind |-> "neginf", num |-> 0, den |-> 1]

\* x < n and x > n for a number x and an integer n: false for NaN
LessThan(x, n) ==
  \/ x.kind = "neginf"
  \/ x.kind = "finite" /\ x.num < n * x.den

GreaterThan(x, n) ==
  \/ x.kind = "inf"
  \/ x.kind = "finite" /\ x.num > n * x.den

\* let limit = args.limit ?? 20; if (limit < 1) limit = 1;
\* if (limit > 200) limit = 200
ClampLimit(args) ==
  LET given == IF args.limit.kind = "absent" THEN Num(DEFAULT_LIMIT) ELSE args.limit
      raised == IF LessThan(given, MIN_LIMIT) THEN Num(MIN_LIMIT) ELSE given
  IN IF GreaterThan(raised, MAX_LIMIT) THEN Num(MAX_LIMIT) ELSE raised

\* String.prototype.split(sep) for a non-empty separator: the pieces
\* between the occurrences of sep met from left to right
RECURSIVE SplitAt(_, _, _, _)
SplitAt(s, sep, i, from) ==
  IF i + Len(sep) - 1 > Len(s) THEN <<SubSeq(s, from, Len(s))>>
  ELSE IF SubSeq(s, i, i + Len(sep) - 1) = sep
  THEN <<SubSeq(s, from, i - 1)>> \o SplitAt(s, sep, i + Len(sep), i + Len(sep))
  ELSE SplitAt(s, sep, i + 1, from)

Split(s, sep) == SplitAt(s, sep, 1, 1)

\* the characters String.prototype.trim removes that occur here
TrimChars == {" ", "\t", "\r", "\f", NL}

RECURSIVE TrimStart(_)
TrimStart(s) ==
  IF s # <<>> /\ Head(s) \in TrimChars THEN TrimStart(Tail(s)) ELSE s

RECURSIVE TrimEnd(_)
TrimEnd(s) ==
  IF s # <<>> /\ s[Len(s)] \in TrimChars THEN TrimEnd(SubSeq(s, 1, Len(s) - 1)) ELSE s

Trim(s) == TrimEnd(TrimStart(s))

\* record.replace(/^\n+/, "")
RECURSIVE StripLeadingNewlines(_)
StripLeadingNewlines(s) ==
  IF s # <<>> /\ Head(s) = NL THEN StripLeadingNewlines(Tail(s)) ELSE s

\* parentsRaw.trim().length > 0 ? parentsRaw.trim().split(" ") : []
ParentsOf(parentsRaw) ==
  IF Trim(parentsRaw) = <<>> THEN <<>> ELSE Split(Trim(parentsRaw), <<" ">>)

\* the body of the for loop: the commits one record adds
CommitsOfRecord(record) ==
  LET trimmed == StripLeadingNewlines(record)
      fields == Split(trimmed, <<NUL>>)
  IN IF trimmed = <<>> THEN <<>>
     ELSE IF Len(fields) < LOG_FIELDS THEN <<>>
     ELSE <<[sha |-> fields[1], short_sha |-> fields[2], subject |-> fields[3],
             author_name |-> fields[4], author_email |-> fields[5],
             author_date |-> fields[6], parents |-> ParentsOf(fields[7])]>>

RECURSIVE LogLoop(_)
LogLoop(records) ==
  IF records = <<>> THEN <<>>
  ELSE CommitsOfRecord(Head(records)) \o LogLoop(Tail(records))

parseLogOutput(raw) ==
  IF Trim(raw) = <<>> THEN <<>>
  ELSE LogLoop(SelectSeq(Split(raw, <<NUL, NUL>>), LAMBDA r : r # <<>>))

\* getLog given what the git run does: the count it gives git with -n, and
\* the commits it returns or the message of the Error it throws
getLog(args, run) ==
  IF run.failure # "none"
  THEN [ok |-> FALSE, message |-> throwGitError(run.failure),
        count |-> ClampLimit(args), commits |-> <<>>]
  ELSE [ok |-> TRUE, message |-> "",
        count |-> ClampLimit(args), commits |-> parseLogOutput(run.stdout)]

\* ------------------------------------------------------------------------
\* server.ts: the try/catch of the handlers of the seven tools that call
\* into git or the embedding provider
\* ------------------------------------------------------------------------
CaughtTools ==
  {"list_changes", "repo_status", "log", "show_commit", "diff_between_refs",
   "blame", "group_changes"}

\* the calls a handler makes inside its try block, in order
ToolOperations(tool) ==
  CASE tool = "list_changes" -> <<"loadChanges">>
    [] tool = "repo_status" -> <<"getRepoStatus">>
    [] tool = "log" -> <<"getLog">>
    [] tool = "show_commit" -> <<"getCommit">>
    [] tool = "diff_between_refs" -> <<"getDiffBetweenRefs">>
    [] tool = "blame" -> <<"getBlame">>
    [] tool = "group_changes" ->
         <<"resolveChangeIds", "getEmbeddingProvider", "embed", "clusterByThreshold">>

\* thrown values: an Error with its message, a string, a number, null,
\* undefined and a plain object
ThrownError(message) == [type |-> "Error", message |-> message, num |-> 0]
ThrownString(text) == [type |-> "string", message |-> text, num |-> 0]
ThrownNumber(n) == [type |-> "number", message |-> <<>>, num |-> n]
ThrownNull == [type |-> "null", message |-> <<>>, num |-> 0]
ThrownUndefined == [type |-> "undefined", message |-> <<>>, num |-> 0]
ThrownObject == [type |-> "object", message |-> <<>>, num |-> 0]

\* String(value) for those values (the number is a natural number)
StringOf(value) ==
  CASE value.type = "string" -> value.message
    [] value.type = "number" -> ToDecimal(value.num)
    [] value.type = "null" -> <<"n","u","l","l">>
    [] value.type = "undefined" -> <<"u","n","d","e","f","i","n","e","d">>
    [] value.type = "object" ->
         <<"[","o","b","j","e","c","t"," ","O","b","j","e","c","t","]">>

\* the message is read from the thrown value whatever it is: undefined for
\* a value that is no Error
CatchMessage_MessageOnly(error) ==
  IF error.type = "Error" THEN error.message
  ELSE <<"u","n","d","e","f","i","n","e","d">>

\* error instanceof Error ? error.message : String(error)
CatchMessage(error) ==
  IF error.type = "Error" THEN error.message ELSE StringOf(error)

\* what the catch block returns
CaughtResponse(error) ==
  [isError |-> TRUE, text |-> CatchMessage(error), structured |-> FALSE]

\* a response the try block returns: JSON text and structuredContent
RESULT_TEXT == <<"{","}">>
ReturnedResponse == [isError |-> FALSE, text |-> RESULT_TEXT, structured |-> TRUE]

\* one handler run.  outcome.failAt = 0: every operation returned;
\* otherwise the operation at that place raised outcome.thrown
ToolHandler(tool, outcome) ==
  IF outcome.failAt = 0 THEN ReturnedResponse ELSE CaughtResponse(outcome.thrown)

\* ------------------------------------------------------------------------
\* State
\* ------------------------------------------------------------------------
VARIABLES
  diffText,    \* parseDiff's argument, as its lines
  parsed,      \* parseDiff's return value
  parseDone,   \* parseDiff has returned
  blameText,   \* parseBlamePorcelain's argument, as its lines
  blamed,      \* what parseBlamePorcelain returned, or that it threw
  blameDone,   \* parseBlamePorcelain has ended
  embeddings,  \* clusterByThreshold's argument: the vectors embed resolved to
  clusters,    \* clusterByThreshold's return value
  grouped,     \* the groups the handler makes of the clusters
  clusterDone, \* the handler has mapped the clusters to groups
  locale,      \* the runtime's default locale
  toolLog,     \* the tool calls made so far, each with its response
  logArgs,     \* getLog's argument
  logRaw,      \* outcome of the git log run of that call
  logResult,   \* the count getLog gave git and the commits it returned
  logDone,     \* getLog has returned
  reads,       \* the repository as it was at each diff read of a call
  stagedRun,   \* outcome of `git diff --cached` in a getUncommittedChanges call
  unstagedRun, \* outcome of `git diff` in the same call
  asmResult,   \* what that call returned or threw
  asmDone,     \* that call has ended
  repo,        \* the repository: for each file, where its edit is
  repoChanges, \* how many times the repository has changed
  hasKey,      \* OPENAI_API_KEY is set in the server's environment
  call,        \* the handler that is running, and where it is
  pending,     \* group_changes calls suspended on provider.embed
  listResp,    \* the last list_changes response
  groupResp    \* the last group_changes response, with its request

parseVars == <<diffText, parsed, parseDone>>
blameVars == <<blameText, blamed, blameDone>>
clusterVars == <<embeddings, clusters, grouped, clusterDone>>
asmVars == <<stagedRun, unstagedRun, asmResult, asmDone>>
serverVars == <<repo, repoChanges, hasKey, call, pending, listResp, groupResp>>
logVars == <<logArgs, logRaw, logResult, logDone>>
vars == <<parseVars, blameVars, clusterVars, locale, toolLog, logVars, reads, asmVars, serverVars>>

GitOk(text) == [failure |-> "none", stdout |-> text]
GitFailed(msg) == [failure |-> msg, stdout |-> <<>>]
EmptyText == <<<<>>>>
NoBlame == [threw |-> FALSE, lines |-> <<>>]
NoResult == [ok |-> TRUE, message |-> "", changes |-> <<>>]

NoResponse == [isError |-> FALSE, text |-> <<>>, changes |-> <<>>, groups |-> <<>>]
NoCall == [op |-> "none", pc |-> "none", ids |-> <<>>, stagedOut |-> EmptyText]
NoGroupResp ==
  [done |-> FALSE, ids |-> <<>>, issued |-> <<>>, outcome |-> "none", current |-> <<>>,
   resolved |-> <<>>, unknown |-> <<>>, calls |-> Calls(0, 0, 0),
   thrown |-> "", result |-> NoResponse]

ParseIdle ==
  /\ diffText = EmptyText
  /\ parsed = <<>>
  /\ parseDone = FALSE

BlameIdle ==
  /\ blameText = EmptyText
  /\ blamed = NoBlame
  /\ blameDone = FALSE

ClusterIdle ==
  /\ embeddings = <<>>
  /\ clusters = <<>>
  /\ grouped = <<>>
  /\ clusterDone = FALSE

ToolIdle == toolLog = <<>>

NoLimit == [kind |-> "absent", num |-> 0, den |-> 1]
NoLog == [ok |-> TRUE, message |-> "", count |-> NoLimit, commits |-> <<>>]

LogIdle ==
  /\ logArgs = [limit |-> NoLimit]
  /\ logRaw = GitOk(<<>>)
  /\ logResult = NoLog
  /\ logDone = FALSE

ReadsIdle == reads = <<>>

AsmIdle ==
  /\ stagedRun = GitOk(EmptyText)
  /\ unstagedRun = GitOk(EmptyText)
  /\ asmResult = NoResult
  /\ asmDone = FALSE

ServerIdle ==
  /\ repo = <<>>
  /\ repoChanges = 0
  /\ hasKey = FALSE
  /\ call = NoCall
  /\ pending = <<>>
  /\ listResp = NoResponse
  /\ groupResp = NoGroupResp

\* ------------------------------------------------------------------------
\* Input texts of the parser
\* ------------------------------------------------------------------------
PX == <<"x">>
PY == <<"y">>
\* a file y in a directory named "x b"
PXbY == <<"x"," ","b","/","y">>

\* what git prints for a pair of paths
HdrLine(pa, pb) == DIFF_GIT \o A_SLASH \o pa \o B_SEP \o pb

LHdrMod == HdrLine(PX, PX)
LHdrRen == HdrLine(PX, PY)
LHdrDel == HdrLine(PX, DEV_NULL)
LHdrNew == HdrLine(DEV_NULL, PX)
LHdrNull == HdrLine(DEV_NULL, DEV_NULL)
LHdrXbY == HdrLine(PXbY, PXbY)
LHdrBad == DIFF_GIT \o <<"w">>
LHunk1 == <<"@","@"," ","-","1"," ","+","1"," ","@","@">>
LHunk2 == <<"@","@"," ","-","1",",","2"," ","+","3",",","4"," ","@","@"," ","f">>
LHunkBad == <<"@","@"," ","b">>

\* The hunk header git writes for start and count numbers; a count that is
\* 1 may be left out.  rest is the function context after the closing @@.
OldStarts == {1, 12}
NewStarts == {1, 3}
Counts == {0, 2, 4, 10}
Rests == {<<>>, <<" ","f">>}
WrittenCount(has, n) == IF has THEN <<",">> \o ToDecimal(n) ELSE <<>>
HunkHeader(os, hasOc, oc, ns, hasNc, nc, rest) ==
  HH_OPEN \o ToDecimal(os) \o WrittenCount(hasOc, oc)
    \o HH_PLUS \o ToDecimal(ns) \o WrittenCount(hasNc, nc)
    \o HH_CLOSE \o rest
HeaderParams ==
  [os : OldStarts, hasOc : BOOLEAN, oc : Counts,
   ns : NewStarts, hasNc : BOOLEAN, nc : Counts, rest : Rests]
HeaderOf(p) == HunkHeader(p.os, p.hasOc, p.oc, p.ns, p.hasNc, p.nc, p.rest)

LHunkOldOnly == HunkHeader(12, TRUE, 0, 3, FALSE, 0, <<>>)
LHunkNewOnly == HunkHeader(1, FALSE, 0, 3, TRUE, 10, <<" ","f">>)
\* a comma with no count after it
LHunkNoCount == <<"@","@"," ","-","1",","," ","+","1"," ","@","@">>
LAdd == <<"+","n">>
LDel == <<"-","o">>
LCtx == <<" ","c">>
LNoNl == <<"\\"," ","N">>
LEmpty == <<>>
LBlank == <<" "," ">>
LJunk == <<"i">>
LBin == BINARY_FILES \o <<"x">> \o DIFFER

PathLines == {LHdrRen, LHdrDel, LHdrNew, LHdrNull, LHdrXbY, LHdrBad, LHunk1}
HunkLines == {LHdrMod, LHunk1, LHunkBad, LAdd, LJunk}
BodyLines == {LHdrMod, LHunk2, LAdd, LDel, LCtx, LNoNl, LEmpty, LBlank, LBin}
HeaderLines == {LHdrMod, LHunk1, LHunk2, LHunkOldOnly, LHunkNewOnly, LHunkNoCount, LAdd}

SeqsUpTo(S, n) == UNION {[1..k -> S] : k \in 1..n}

RECURSIVE Flatten(_)
Flatten(ss) == IF ss = <<>> THEN <<>> ELSE Head(ss) \o Flatten(Tail(ss))

ParseInputs ==
  SeqsUpTo(PathLines, MaxPathLines)
    \cup SeqsUpTo(HunkLines, MaxHunkLines)
    \cup SeqsUpTo(BodyLines, MaxBodyLines)
    \cup SeqsUpTo(HeaderLines, MaxHeaderLines)

\* ------------------------------------------------------------------------
\* The parser applied to one text
\* ------------------------------------------------------------------------
InitParse ==
  /\ diffText \in ParseInputs
  /\ parsed = <<>>
  /\ parseDone = FALSE
  /\ BlameIdle
  /\ ClusterIdle
  /\ locale = "en"
  /\ ToolIdle
  /\ LogIdle
  /\ ReadsIdle
  /\ AsmIdle
  /\ ServerIdle

CallParseDiff ==
  /\ ~parseDone
  /\ parsed' = parseDiff(diffText)
  /\ parseDone' = TRUE
  /\ UNCHANGED <<diffText, blameVars, clusterVars, locale, toolLog, logVars, reads, asmVars, serverVars>>

NextParse == CallParseDiff

SpecParse == InitParse /\ [][NextParse]_vars

\* ------------------------------------------------------------------------
\* The blame parser applied to one text
\* ------------------------------------------------------------------------
SHA_A == [k \in 1..SHA_LEN |-> "a"]
SHA_B == <<"1","2","3","4","5","6","7">> \o [k \in 1..(SHA_LEN - SHORT_SHA_LEN) |-> "d"]

\* <sha> <orig-line> <final-line> <num-lines>, and the same without num-lines
BHdrA == SHA_A \o <<" ","1"," ","1"," ","1">>
BHdrB == SHA_B \o <<" ","3"," ","2">>
\* one hex digit short of a sha
BHdrShort == SubSeq(SHA_A, 1, SHA_LEN - 1) \o <<" ","1"," ","1"," ","1">>
BAuthor == KEY_AUTHOR \o <<"A">>
BAuthorB == KEY_AUTHOR \o <<"B">>
BMail == KEY_AUTHOR_MAIL \o <<"<","m",">">>
BTime == KEY_AUTHOR_TIME \o <<"1","7","0","0","0","0","0","0","0","0">>
BTimeBad == KEY_AUTHOR_TIME \o <<"x">>
BSummary == KEY_SUMMARY \o <<"s">>
BOther == <<"f","i","l","e","n","a","m","e"," ","f">>
BTabC == <<"\t","c">>
BTabOnly == <<"\t">>

BlockLines == {BHdrA, BHdrB, BHdrShort, BOther, BTabC, BTabOnly, LEmpty}
MetaLines == {BHdrA, BAuthor, BMail, BTime, BTimeBad, BSummary, BTabC}
NestLines == {BHdrA, BHdrB, BAuthor, BAuthorB, BSummary, BTabC}

BlameInputs ==
  SeqsUpTo(BlockLines, MaxBlockLines)
    \cup SeqsUpTo(MetaLines, MaxMetaLines)
    \cup SeqsUpTo(NestLines, MaxNestLines)

InitBlame ==
  /\ ParseIdle
  /\ blameText \in BlameInputs
  /\ blamed = NoBlame
  /\ blameDone = FALSE
  /\ ClusterIdle
  /\ locale = "en"
  /\ ToolIdle
  /\ LogIdle
  /\ ReadsIdle
  /\ AsmIdle
  /\ ServerIdle

CallParseBlamePorcelain ==
  /\ ~blameDone
  /\ blamed' = parseBlamePorcelain(blameText)
  /\ blameDone' = TRUE
  /\ UNCHANGED <<parseVars, blameText, clusterVars, locale, toolLog, logVars, reads, asmVars, serverVars>>

NextBlame == CallParseBlamePorcelain

SpecBlame == InitBlame /\ [][NextBlame]_vars

\* ------------------------------------------------------------------------
\* Both parsers applied to one text of blank and other lines
\* ------------------------------------------------------------------------
LSpace == <<" ">>
LTab == <<"\t">>
LCr == <<"\r">>
LSpaces == <<" "," "," ">>
WsLines == {LEmpty, LSpace, LTab, LCr, LSpaces}
BlankInputs ==
  SeqsUpTo(WsLines \cup {LHdrMod, LHunk1, BHdrA, BTabC}, MaxBlankLines)

InitBlank ==
  /\ \E text \in BlankInputs :
       /\ diffText = text
       /\ blameText = text
  /\ parsed = <<>>
  /\ parseDone = FALSE
  /\ blamed = NoBlame
  /\ blameDone = FALSE
  /\ ClusterIdle
  /\ locale = "en"
  /\ ToolIdle
  /\ LogIdle
  /\ ReadsIdle
  /\ AsmIdle
  /\ ServerIdle

NextBlank ==
  \/ CallParseDiff
  \/ CallParseBlamePorcelain

SpecBlank == InitBlank /\ [][NextBlank]_vars

\* ------------------------------------------------------------------------
\* getUncommittedChanges applied to the outcomes of its two git runs
\* ------------------------------------------------------------------------
PA == <<"a">>
PBUpper == <<"B">>
PBLower == <<"b">>
AsmPaths == {PA, PBUpper, PBLower}

HunkA == <<LHunk1, LAdd>>
HunkB == <<LHunk2, LDel, LAdd>>
AsmBodies == {HunkA, HunkB}

\* the chunks git prints for one file
FileChunk(path, body) == <<HdrLine(path, path)>> \o body

AsmChunks == {FileChunk(p, b) : p \in AsmPaths, b \in AsmBodies}

\* a text of up to n chunks; the text with no chunk is the empty text
ChunkTexts(chunks, n) ==
  {EmptyText} \cup {Flatten(cs) : cs \in SeqsUpTo(chunks, n)}

AsmTexts == ChunkTexts(AsmChunks, MaxAsmChunks)

InitAssemble ==
  /\ ParseIdle
  /\ BlameIdle
  /\ ClusterIdle
  /\ locale \in Locales
  /\ ToolIdle
  /\ LogIdle
  /\ ReadsIdle
  /\ \/ /\ stagedRun \in {GitOk(t) : t \in AsmTexts}
        /\ unstagedRun \in {GitOk(t) : t \in AsmTexts}
     \/ /\ stagedRun \in {GitFailed(m) : m \in GitFailures}
        /\ unstagedRun = GitOk(EmptyText)
     \/ /\ stagedRun = GitOk(EmptyText)
        /\ unstagedRun \in {GitFailed(m) : m \in GitFailures}
  /\ asmResult = NoResult
  /\ asmDone = FALSE
  /\ ServerIdle

CallGetUncommittedChanges ==
  /\ ~asmDone
  /\ asmResult' = getUncommittedChanges(stagedRun, unstagedRun, locale)
  /\ asmDone' = TRUE
  /\ UNCHANGED <<parseVars, blameVars, clusterVars, locale, toolLog, logVars, reads, stagedRun, unstagedRun, serverVars>>

NextAssemble == CallGetUncommittedChanges

SpecAssemble == InitAssemble /\ [][NextAssemble]_vars


\* ------------------------------------------------------------------------
\* The clustering engine and the handler's mapping of clusters to groups
\* (index.ts lines 260-276), applied to one sequence of vectors
\* ------------------------------------------------------------------------
\* <<1,0>> and <<4,3>> are at the threshold (cosine 4/5); <<1,1>> is as
\* similar to <<3,1>> as to <<1,3>>, which are not similar to each other
ClusterVectors ==
  {<<1, 0>>, <<4, 3>>, <<1, 1>>, <<3, 1>>, <<1, 3>>, <<0, 0>>, <<-1, 0>>}

ClusterPaths == <<PA, PBLower, PX, PY, PBUpper>>

\* the resolved changes the vectors were computed for
ChangesFor(n) ==
  [k \in 1..n |-> [id |-> ChangeId(k - 1), file_path |-> ClusterPaths[k], hunks |-> <<>>]]

InitCluster ==
  /\ ParseIdle
  /\ BlameIdle
  /\ embeddings \in {<<>>} \cup SeqsUpTo(ClusterVectors, MaxVectors)
  /\ clusters = <<>>
  /\ grouped = <<>>
  /\ clusterDone = FALSE
  /\ locale = "en"
  /\ ToolIdle
  /\ LogIdle
  /\ ReadsIdle
  /\ AsmIdle
  /\ ServerIdle

CallClusterByThreshold ==
  /\ ~clusterDone
  /\ clusters' = clusterByThreshold(embeddings)
  /\ grouped' = GroupChangesResume(ChangesFor(Len(embeddings)),
                    [rejected |-> FALSE, message |-> "", embeddings |-> embeddings]).groups
  /\ clusterDone' = TRUE
  /\ UNCHANGED <<parseVars, blameVars, embeddings, locale, toolLog, logVars, reads, asmVars, serverVars>>

NextCluster == CallClusterByThreshold

SpecCluster == InitCluster /\ [][NextCluster]_vars

\* ------------------------------------------------------------------------
\* getLog applied to a limit and to the outcome of its git run
\* ------------------------------------------------------------------------
LimitInputs ==
  {NoLimit, NaN, PosInfinity, NegInfinity}
    \cup {Num(n) : n \in {0, 1, 2, 20, 199, 200, 201, 1000}}
    \cup {Frac(0 - 5, 1), Frac(1, 2), Frac(3, 2), Frac(399, 2), Frac(401, 2)}

\* the commits git may print: subject, author and parents empty or not
WrittenCommits ==
  [sha : {<<"H">>}, short_sha : {<<"h">>}, subject : {<<>>, <<"s">>},
   author_name : {<<>>, <<"n">>}, author_email : {<<>>, <<"e">>},
   author_date : {<<"d">>},
   parents : {<<>>, <<<<"p">>>>, <<<<"p">>, <<"q">>>>}]

RECURSIVE JoinWith(_, _)
JoinWith(strs, sep) ==
  IF strs = <<>> THEN <<>>
  ELSE IF Len(strs) = 1 THEN strs[1]
  ELSE strs[1] \o sep \o JoinWith(Tail(strs), sep)

\* %H%x00%h%x00%s%x00%an%x00%ae%x00%ad%x00%P%x00%x00 for one commit
RecordText(c) ==
  JoinWith(<<c.sha, c.short_sha, c.subject, c.author_name, c.author_email,
             c.author_date, JoinWith(c.parents, <<" ">>)>>, <<NUL>>)
    \o <<NUL, NUL>>

\* git log's output for a sequence of commits: the records, one per commit,
\* with a newline between two of them
LogText(commits) ==
  JoinWith([k \in 1..Len(commits) |-> RecordText(commits[k])], <<NL>>)

WrittenLogs == {<<>>} \cup SeqsUpTo(WrittenCommits, MaxLogRecords)

InitLog ==
  /\ ParseIdle
  /\ BlameIdle
  /\ ClusterIdle
  /\ locale = "en"
  /\ ToolIdle
  /\ \/ /\ logArgs \in [limit : LimitInputs]
        /\ logRaw \in {GitOk(LogText(w)) : w \in {<<>>} \cup SeqsUpTo(WrittenCommits, 1)}
     \/ /\ logArgs = [limit |-> NoLimit]
        /\ logRaw \in {GitOk(LogText(w)) : w \in WrittenLogs}
                       \cup {GitFailed(m) : m \in GitFailures}
  /\ logResult = NoLog
  /\ logDone = FALSE
  /\ ReadsIdle
  /\ AsmIdle
  /\ ServerIdle

CallGetLog ==
  /\ ~logDone
  /\ logResult' = getLog(logArgs, logRaw)
  /\ logDone' = TRUE
  /\ UNCHANGED <<parseVars, blameVars, clusterVars, locale, toolLog, logArgs, logRaw, reads, asmVars, serverVars>>

NextLog == CallGetLog

SpecLog == InitLog /\ [][NextLog]_vars

\* ------------------------------------------------------------------------
\* A client calling the seven tools one after another, the operations
\* under them returning or raising
\* ------------------------------------------------------------------------
ThrownValues ==
  {ThrownError(<<"g","i","t">>), ThrownError(<<>>), ThrownString(<<"s">>),
   ThrownNumber(42), ThrownNull, ThrownUndefined, ThrownObject}

ToolOutcomes(tool) ==
  {[failAt |-> 0, thrown |-> ThrownNull]}
    \cup {[failAt |-> j, thrown |-> v] :
            j \in 1..Len(ToolOperations(tool)), v \in ThrownValues}

NoToolResponse == [isError |-> FALSE, text |-> <<>>, structured |-> FALSE]

InitTools ==
  /\ ParseIdle
  /\ BlameIdle
  /\ ClusterIdle
  /\ locale = "en"
  /\ toolLog = <<>>
  /\ LogIdle
  /\ ReadsIdle
  /\ AsmIdle
  /\ ServerIdle

\* the client sends a tools/call request once the call before is answered
CallTool ==
  /\ Len(toolLog) < MaxToolCalls
  /\ IF toolLog = <<>> THEN TRUE ELSE toolLog[Len(toolLog)].answered
  /\ \E tool \in CaughtTools : \E outcome \in ToolOutcomes(tool) :
       toolLog' = Append(toolLog, [tool |-> tool, outcome |-> outcome,
                                   answered |-> FALSE, response |-> NoToolResponse])
  /\ UNCHANGED <<parseVars, blameVars, clusterVars, locale, logVars, reads, asmVars, serverVars>>

\* the handler of the call runs to its return
ToolReturns ==
  /\ toolLog # <<>>
  /\ ~toolLog[Len(toolLog)].answered
  /\ LET c == toolLog[Len(toolLog)]
     IN toolLog' = [toolLog EXCEPT ![Len(toolLog)] =
                      [c EXCEPT !.answered = TRUE,
                                !.response = ToolHandler(c.tool, c.outcome)]]
  /\ UNCHANGED <<parseVars, blameVars, clusterVars, locale, logVars, reads, asmVars, serverVars>>

NextTools ==
  \/ CallTool
  \/ ToolReturns

SpecTools == InitTools /\ [][NextTools]_vars

\* ------------------------------------------------------------------------
\* The server: list_changes and group_changes over a changing repository
\* ------------------------------------------------------------------------
DecimalOfSmall == <<"1", "2", "3", "4", "5", "6", "7", "8", "9">>

\* the files of the repository, in the order git prints them
RepoPathOrder == <<PA, PBLower>>
RepoFiles == 1..Len(RepoPathOrder)
FileStates == {"clean", "staged", "unstaged"}

RECURSIVE RepoText(_, _, _, _)
RepoText(r, f, state, body) ==
  IF f > Len(RepoPathOrder) THEN <<>>
  ELSE (IF r[f] = state THEN FileChunk(RepoPathOrder[f], body) ELSE <<>>)
         \o RepoText(r, f + 1, state, body)

NonEmptyText(t) == IF t = <<>> THEN EmptyText ELSE t

\* stdout of `git diff --cached` and of `git diff`
StagedDiffOf(r) == NonEmptyText(RepoText(r, 1, "staged", HunkA))
UnstagedDiffOf(r) == NonEmptyText(RepoText(r, 1, "unstaged", HunkB))

\* the ids a client may send: those of a full list and one beyond
IdUniverse == {<<"c","h","a","n","g","e","-", DecimalOfSmall[i]>> : i \in 1..(Len(RepoPathOrder) + 1)}
Requests == {<<>>} \cup SeqsUpTo(IdUniverse, MaxIds)

EmbVectors == {<<1, 0>>, <<2, 1>>, <<0, 1>>}

Init ==
  /\ ParseIdle
  /\ BlameIdle
  /\ ClusterIdle
  /\ AsmIdle
  /\ locale = "en"
  /\ ToolIdle
  /\ LogIdle
  /\ ReadsIdle
  /\ repo \in [RepoFiles -> FileStates]
  /\ repoChanges = 0
  /\ hasKey \in BOOLEAN
  /\ call = NoCall
  /\ pending = <<>>
  /\ listResp = NoResponse
  /\ groupResp = NoGroupResp

\* another process edits, stages or unstages files
RepoChange ==
  /\ repoChanges < MaxRepoChanges
  /\ \E r \in [RepoFiles -> FileStates] : r # repo /\ repo' = r
  /\ repoChanges' = repoChanges + 1
  /\ UNCHANGED <<parseVars, blameVars, clusterVars, locale, toolLog, logVars, reads, asmVars, hasKey, call, pending, listResp, groupResp>>

\* listResp and groupResp hold the response to the latest call of the tool:
\* nothing while that call has not returned
CallListChanges ==
  /\ call.op = "none"
  /\ call' = [NoCall EXCEPT !.op = "list_changes", !.pc = "staged"]
  /\ listResp' = NoResponse
  /\ UNCHANGED <<parseVars, blameVars, clusterVars, locale, toolLog, logVars, reads, asmVars, repo, repoChanges, hasKey, pending, groupResp>>

\* the client asks to group ids, knowing the last list_changes response
CallGroupChanges ==
  /\ call.op = "none"
  /\ Len(pending) < MaxPending
  /\ \E ids \in Requests :
       call' = [NoCall EXCEPT !.op = "group_changes", !.pc = "staged", !.ids = ids]
  /\ groupResp' = NoGroupResp
  /\ UNCHANGED <<parseVars, blameVars, clusterVars, locale, toolLog, logVars, reads, asmVars, repo, repoChanges, hasKey, pending, listResp>>

IdsAndPaths(changes) ==
  [k \in 1..Len(changes) |-> [id |-> changes[k].id, file_path |-> changes[k].file_path]]

\* the resolved changes kept in one place for the whole server: a call that
\* suspends overwrites what the calls suspended before it resolved
HandlerContinues_SharedSnapshot(loaded) ==
  IF call.op = "list_changes"
  THEN /\ listResp' = ListChangesResult(loaded)
       /\ UNCHANGED <<pending, groupResp>>
  ELSE LET g == GroupChangesSync(loaded, call.ids, hasKey)
       IN /\ IF g.suspend
             THEN /\ pending' = Append([k \in 1..Len(pending) |->
                                          [pending[k] EXCEPT !.changes = g.resolved]],
                       [ids |-> call.ids, issued |-> MapKeys(listResp.changes),
                        current |-> g.current, changes |-> g.resolved])
                  /\ UNCHANGED groupResp
             ELSE /\ groupResp' = [done |-> TRUE, ids |-> call.ids,
                                   issued |-> MapKeys(listResp.changes),
                                   outcome |-> g.outcome, current |-> g.current,
                                   resolved |-> IdsAndPaths(g.resolved),
                                   unknown |-> g.unknown, calls |-> g.calls,
                                   thrown |-> g.thrown,
                                   result |-> g.result]
                  /\ UNCHANGED pending
          /\ UNCHANGED listResp

\* the handler's code from the return or throw of getUncommittedChanges
\* to its return or its await
HandlerContinues(loaded) ==
  IF call.op = "list_changes"
  THEN /\ listResp' = ListChangesResult(loaded)
       /\ UNCHANGED <<pending, groupResp>>
  ELSE LET g == GroupChangesSync(loaded, call.ids, hasKey)
       IN /\ IF g.suspend
             THEN /\ pending' = Append(pending,
                       [ids |-> call.ids, issued |-> MapKeys(listResp.changes),
                        current |-> g.current, changes |-> g.resolved])
                  /\ UNCHANGED groupResp
             ELSE /\ groupResp' = [done |-> TRUE, ids |-> call.ids,
                                   issued |-> MapKeys(listResp.changes),
                                   outcome |-> g.outcome, current |-> g.current,
                                   resolved |-> IdsAndPaths(g.resolved),
                                   unknown |-> g.unknown, calls |-> g.calls,
                                   thrown |-> g.thrown,
                                   result |-> g.result]
                  /\ UNCHANGED pending
          /\ UNCHANGED listResp

\* execFileSync("git", ["diff", "--cached", ...])
ExecStagedDiff ==
  /\ call.pc = "staged"
  /\ \E run \in {GitOk(StagedDiffOf(repo))} \cup {GitFailed(m) : m \in GitFailures} :
       IF run.failure = "none"
       THEN /\ call' = [call EXCEPT !.pc = "unstaged", !.stagedOut = run.stdout]
            /\ UNCHANGED <<pending, listResp, groupResp>>
       ELSE /\ HandlerContinues(getUncommittedChanges(run, GitOk(EmptyText), locale))
            /\ call' = NoCall
  /\ UNCHANGED <<parseVars, blameVars, clusterVars, locale, toolLog, logVars, reads, asmVars, repo, repoChanges, hasKey>>

\* execFileSync("git", ["diff", ...]) and the rest of the synchronous code
ExecUnstagedDiff ==
  /\ call.pc = "unstaged"
  /\ \E run \in {GitOk(UnstagedDiffOf(repo))} \cup {GitFailed(m) : m \in GitFailures} :
       HandlerContinues(getUncommittedChanges(GitOk(call.stagedOut), run, locale))
  /\ call' = NoCall
  /\ UNCHANGED <<parseVars, blameVars, clusterVars, locale, toolLog, logVars, reads, asmVars, repo, repoChanges, hasKey>>

Settlements(n) ==
  {[rejected |-> FALSE, message |-> "", embeddings |-> e] : e \in [1..n -> EmbVectors]}
    \cup {[rejected |-> TRUE, message |-> "embedding request failed", embeddings |-> <<>>]}

\* provider.embed settles for one suspended call and its handler resumes
EmbedSettles ==
  /\ call.op = "none"
  /\ \E i \in 1..Len(pending) :
       LET p == pending[i]
           texts == [k \in 1..Len(p.changes) |-> buildEmbeddingText(p.changes[k])]
       IN \E settled \in Settlements(Len(texts)) :
            /\ groupResp' = [done |-> TRUE, ids |-> p.ids, issued |-> p.issued,
                             outcome |-> IF settled.rejected THEN "embed-failed" ELSE "clustered",
                             current |-> p.current,
                             resolved |-> IdsAndPaths(p.changes), unknown |-> <<>>,
                             calls |-> Calls(1, 1, IF settled.rejected THEN 0 ELSE 1),
                             thrown |-> settled.message,
                             result |-> GroupChangesResume(p.changes, settled)]
            /\ pending' = SubSeq(pending, 1, i - 1) \o SubSeq(pending, i + 1, Len(pending))
  /\ UNCHANGED <<parseVars, blameVars, clusterVars, locale, toolLog, logVars, reads, asmVars, repo, repoChanges, hasKey, call, listResp>>

Next ==
  \/ RepoChange
  \/ CallListChanges
  \/ CallGroupChanges
  \/ ExecStagedDiff
  \/ ExecUnstagedDiff
  \/ EmbedSettles

Spec == Init /\ [][Next]_vars

\* ------------------------------------------------------------------------
\* The server with a provider configured and a client that does not wait
\* for a group_changes response before its next group_changes call
\* ------------------------------------------------------------------------
InitOverlap ==
  /\ ParseIdle
  /\ BlameIdle
  /\ ClusterIdle
  /\ AsmIdle
  /\ locale = "en"
  /\ ToolIdle
  /\ LogIdle
  /\ ReadsIdle
  /\ repo \in [RepoFiles -> FileStates]
  /\ repoChanges = 0
  /\ hasKey = TRUE
  /\ call = NoCall
  /\ pending = <<>>
  /\ listResp = NoResponse
  /\ groupResp = NoGroupResp

\* group_changes called while earlier group_changes calls are suspended
CallGroupChangesOverlapping ==
  /\ call.op = "none"
  /\ Len(pending) < MaxOverlap
  /\ \E ids \in Requests :
       call' = [NoCall EXCEPT !.op = "group_changes", !.pc = "staged", !.ids = ids]
  /\ groupResp' = NoGroupResp
  /\ UNCHANGED <<parseVars, blameVars, clusterVars, locale, toolLog, logVars, reads, asmVars, repo, repoChanges, hasKey, pending, listResp>>

NextOverlap ==
  \/ RepoChange
  \/ CallGroupChangesOverlapping
  \/ ExecStagedDiff
  \/ ExecUnstagedDiff
  \/ EmbedSettles

SpecOverlap == InitOverlap /\ [][NextOverlap]_vars

\* ------------------------------------------------------------------------
\* git.ts: one getUncommittedChanges call, its two diff reads and the
\* index updates of another process
\* ------------------------------------------------------------------------
\* stdout of `git diff --cached` and of `git diff` for an edit that is the
\* same hunk on whichever side of the index it is
CachedDiffAt(r) == NonEmptyText(RepoText(r, 1, "staged", HunkA))
WorktreeDiffAt(r) == NonEmptyText(RepoText(r, 1, "unstaged", HunkA))

InitSnapshot ==
  /\ ParseIdle
  /\ BlameIdle
  /\ ClusterIdle
  /\ locale \in Locales
  /\ ToolIdle
  /\ LogIdle
  /\ ReadsIdle
  /\ AsmIdle
  /\ repo \in [RepoFiles -> FileStates]
  /\ repoChanges = 0
  /\ hasKey = FALSE
  /\ call = NoCall
  /\ pending = <<>>
  /\ listResp = NoResponse
  /\ groupResp = NoGroupResp

\* git add or git reset of one file's hunk by another process
StageOrUnstage ==
  /\ repoChanges < MaxRepoChanges
  /\ \E f \in RepoFiles :
       /\ repo[f] # "clean"
       /\ repo' = [repo EXCEPT ![f] = IF repo[f] = "staged" THEN "unstaged" ELSE "staged"]
  /\ repoChanges' = repoChanges + 1
  /\ UNCHANGED <<parseVars, blameVars, clusterVars, locale, toolLog, logVars, reads, asmVars, hasKey, call, pending, listResp, groupResp>>

\* execFileSync("git", ["diff", "--cached", ...]); a failure is thrown
ReadStagedDiff ==
  /\ ~asmDone
  /\ reads = <<>>
  /\ reads' = Append(reads, [of |-> "staged", repo |-> repo])
  /\ \E run \in {GitOk(CachedDiffAt(repo))} \cup {GitFailed(m) : m \in GitFailures} :
       /\ stagedRun' = run
       /\ IF run.failure = "none"
          THEN UNCHANGED <<asmResult, asmDone>>
          ELSE /\ asmResult' = getUncommittedChanges(run, unstagedRun, locale)
               /\ asmDone' = TRUE
  /\ UNCHANGED <<parseVars, blameVars, clusterVars, locale, toolLog, logVars, unstagedRun, serverVars>>

\* execFileSync("git", ["diff", ...]) and the rest of the call
ReadUnstagedDiff ==
  /\ ~asmDone
  /\ Len(reads) = 1
  /\ reads' = Append(reads, [of |-> "unstaged", repo |-> repo])
  /\ \E run \in {GitOk(WorktreeDiffAt(repo))} \cup {GitFailed(m) : m \in GitFailures} :
       /\ unstagedRun' = run
       /\ asmResult' = getUncommittedChanges(stagedRun, run, locale)
  /\ asmDone' = TRUE
  /\ UNCHANGED <<parseVars, blameVars, clusterVars, locale, toolLog, logVars, stagedRun, serverVars>>

NextSnapshot ==
  \/ StageOrUnstage
  \/ ReadStagedDiff
  \/ ReadUnstagedDiff

SpecSnapshot == InitSnapshot /\ [][NextSnapshot]_vars


\* ------------------------------------------------------------------------
\* Properties of the parser (checked under SpecParse)
\* ------------------------------------------------------------------------

\* the chunk that starts at marker line k, as a range of lines of the text
RangeEnd(text, k) ==
  IF \E j \in (k + 1)..Len(text) : StartsWith(text[j], DIFF_GIT)
  THEN (CHOOSE j \in (k + 1)..Len(text) :
          /\ StartsWith(text[j], DIFF_GIT)
          /\ \A q \in (k + 1)..(j - 1) : ~StartsWith(text[q], DIFF_GIT)) - 1
  ELSE Len(text)

\* the line has the form diff --git a/<non-empty> b/<non-empty>
MatchesPathHeader(line) ==
  /\ StartsWith(line, DIFF_GIT \o A_SLASH)
  /\ \E k \in 15..(Len(line) - 3) : HasAt(line, k, B_SEP)

\* the line is "Binary files <non-empty> differ"
MatchesBinary(line) ==
  /\ Len(line) >= 21
  /\ SubSeq(line, 1, 13) = BINARY_FILES
  /\ SubSeq(line, Len(line) - 6, Len(line)) = DIFFER

ValidHeaderLines(text, k) ==
  {j \in k..RangeEnd(text, k) : headerMatch(text[j]).ok}

\* the marker lines whose chunk passes the three tests of the claim
Qualifying(text) ==
  {k \in 1..Len(text) :
     /\ StartsWith(text[k], DIFF_GIT)
     /\ MatchesPathHeader(text[k])
     /\ \A j \in k..RangeEnd(text, k) : ~MatchesBinary(text[j])
     /\ ValidHeaderLines(text, k) # {}}

\* the elements of a set of numbers in ascending order
RECURSIVE Ascending(_)
Ascending(S) ==
  IF S = {} THEN <<>>
  ELSE LET least == CHOOSE x \in S : \A y \in S : x <= y
       IN <<least>> \o Ascending(S \ {least})

\* a is b with some elements left out, order kept
RECURSIVE IsSubseq(_, _)
IsSubseq(a, b) ==
  IF a = <<>> THEN TRUE
  ELSE IF b = <<>> THEN FALSE
  ELSE IF Head(a) = Head(b) THEN IsSubseq(Tail(a), Tail(b))
  ELSE IsSubseq(a, Tail(b))

AllHunks(entries) == Flatten([e \in 1..Len(entries) |-> entries[e].hunks])
AllLines(entries) ==
  Flatten([h \in 1..Len(AllHunks(entries)) |-> AllHunks(entries)[h].lines])

PrefixChars == {" ", "+", "-", "\\"}

HeaderPaths == {PX, PY, PXbY, DEV_NULL}

\* C6: the file path of a chunk whose first line is git's header for the
\* pair (pathA, pathB) is pathA when pathB is /dev/null and pathB otherwise.
C6_PathFromHeader ==
  parseDone =>
    \A pa, pb \in HeaderPaths :
      (diffText[1] = HdrLine(pa, pb) /\ parsed # <<>>)
        => parsed[1].file_path = (IF pb = DEV_NULL THEN pa ELSE pb)

\* C7: no entry returned by parseDiff has file_path /dev/null.
C7_NeverDevNull ==
  parseDone => \A e \in 1..Len(parsed) : parsed[e].file_path # DEV_NULL

\* C8: every stored hunk line starts with space, '+', '-' or backslash, and
\* the stored lines, taken in output order, are lines of the input in their
\* source order.
C8_HunkLines ==
  parseDone =>
    /\ \A k \in 1..Len(AllLines(parsed)) :
         /\ AllLines(parsed)[k] # <<>>
         /\ AllLines(parsed)[k][1] \in PrefixChars
    /\ IsSubseq(AllLines(parsed), diffText)

C8_Witness ==
  /\ parseDone
  /\ diffText = <<LHdrMod, LHunk1, LAdd, LJunk, LAdd>>
  /\ Len(parsed) = 1
  /\ parsed[1].hunks[1].lines = <<LAdd, LAdd>>

\* C9: parseDiff emits one entry per chunk whose first line matches the
\* path header, that has no binary line and at least one valid hunk header,
\* and that entry is what the chunk yields when parsed on its own.
C9_EntryIff ==
  parseDone =>
    LET q == Qualifying(diffText)
        ks == Ascending(q)
    IN /\ Len(parsed) = Cardinality(q)
       /\ \A j \in 1..Len(parsed) :
            <<parsed[j]>> = parseDiff(SubSeq(diffText, ks[j], RangeEnd(diffText, ks[j])))

C9_Witness ==
  /\ parseDone
  /\ diffText = <<LHdrMod, LBin, LHdrMod, LHunk2>>
  /\ Len(parsed) = 1
  /\ parsed[1].hunks[1].header = LHunk2

\* C10: within a chunk that yields an entry, the hunks are exactly the valid
\* header lines in order; each hunk holds the prefixed lines between its
\* header and the next line that starts with "@@" (valid or not), so a
\* malformed "@@" line ends the hunk before it, and the lines after it
\* belong to no hunk.
NextAt(text, j, last) ==
  IF \E q \in (j + 1)..last : StartsWith(text[q], AT_AT)
  THEN CHOOSE q \in (j + 1)..last :
         /\ StartsWith(text[q], AT_AT)
         /\ \A r \in (j + 1)..(q - 1) : ~StartsWith(text[r], AT_AT)
  ELSE last + 1

HasPrefixChar(line) == line # <<>> /\ line[1] \in PrefixChars

C10_MalformedHeader ==
  parseDone =>
    LET ks == Ascending(Qualifying(diffText))
    IN \A j \in 1..Len(parsed) :
         LET last == RangeEnd(diffText, ks[j])
             hs == Ascending(ValidHeaderLines(diffText, ks[j]))
         IN /\ Len(parsed[j].hunks) = Len(hs)
            /\ \A h \in 1..Len(hs) :
                 /\ parsed[j].hunks[h].header = diffText[hs[h]]
                 /\ parsed[j].hunks[h].lines =
                      SelectSeq(SubSeq(diffText, hs[h] + 1, NextAt(diffText, hs[h], last) - 1),
                                HasPrefixChar)

C10_Witness ==
  /\ parseDone
  /\ diffText = <<LHdrMod, LHunk1, LAdd, LHunkBad, LAdd, LHunk1>>
  /\ Len(parsed) = 1
  /\ Len(parsed[1].hunks) = 2
  /\ parsed[1].hunks[1].lines = <<LAdd>>
  /\ parsed[1].hunks[2].lines = <<>>

\* C11: a hunk made from the header git writes for (start, optional count,
\* start, optional count, context) has old_start and new_start equal to the
\* written starts, old_lines and new_lines each equal to its own written
\* count, or 1 when that count is left out, and header equal to the whole
\* line; every such line of a chunk that yields an entry makes a hunk.
WrittenHeaders == {HeaderOf(p) : p \in HeaderParams}

IsWrittenHeader(line) == line \in WrittenHeaders

\* each written header with the numbers it was written from
WrittenFields ==
  {[header |-> HeaderOf(p),
    old_start |-> p.os, old_lines |-> IF p.hasOc THEN p.oc ELSE 1,
    new_start |-> p.ns, new_lines |-> IF p.hasNc THEN p.nc ELSE 1] : p \in HeaderParams}

WrittenHeadersIn(text) ==
  LET ks == Ascending(Qualifying(text))
  IN Flatten([j \in 1..Len(ks) |->
                SelectSeq(SubSeq(text, ks[j], RangeEnd(text, ks[j])), IsWrittenHeader)])

C11_HeaderFields ==
  parseDone =>
    LET hs == AllHunks(parsed)
    IN /\ [h \in 1..Len(hs) |-> hs[h].header] = WrittenHeadersIn(diffText)
       /\ \A h \in 1..Len(hs) :
            \A w \in WrittenFields :
              w.header = hs[h].header =>
                /\ hs[h].old_start = w.old_start
                /\ hs[h].old_lines = w.old_lines
                /\ hs[h].new_start = w.new_start
                /\ hs[h].new_lines = w.new_lines

C11_Witness ==
  /\ parseDone
  /\ diffText = <<LHdrMod, LHunkOldOnly, LHunkNewOnly>>
  /\ Len(parsed) = 1
  /\ Len(parsed[1].hunks) = 2
  /\ parsed[1].hunks[1].old_start = 12
  /\ parsed[1].hunks[1].old_lines = 0
  /\ parsed[1].hunks[1].new_lines = 1
  /\ parsed[1].hunks[2].old_lines = 1
  /\ parsed[1].hunks[2].new_lines = 10
  /\ parsed[1].hunks[2].header = LHunkNewOnly

\* C12: the entries are the entries of the file chunks, chunk after chunk in
\* the order of the text, with nothing merged or sorted; the headers and
\* lines of the hunks, read in output order, occur in that order in the
\* text after the first "diff --git " line; and the text before that line
\* changes nothing.
MarkerPositions(text) == {k \in 1..Len(text) : StartsWith(text[k], DIFF_GIT)}

HunkTrace(hunks) ==
  Flatten([h \in 1..Len(hunks) |-> <<hunks[h].header>> \o hunks[h].lines])

FromFirstMarker(text) ==
  IF MarkerPositions(text) = {} THEN <<>>
  ELSE SubSeq(text, Ascending(MarkerPositions(text))[1], Len(text))

C12_SourceOrder ==
  parseDone =>
    LET ms == Ascending(MarkerPositions(diffText))
    IN /\ parsed = Flatten([j \in 1..Len(ms) |->
                      parseDiff(SubSeq(diffText, ms[j], RangeEnd(diffText, ms[j])))])
       /\ IsSubseq(HunkTrace(AllHunks(parsed)), FromFirstMarker(diffText))

C12_Witness ==
  /\ parseDone
  /\ diffText = <<LJunk, LHdrMod, LHunk1, LAdd, LHdrMod, LHunk1>>
  /\ Len(parsed) = 2
  /\ parsed[1].file_path = PX
  /\ parsed[2].file_path = PX
  /\ Len(parsed[1].hunks) = 1
  /\ parsed[1].hunks[1].lines = <<LAdd>>
  /\ Len(parsed[2].hunks) = 1
  /\ parsed[2].hunks[1].lines = <<>>

\* C13: for a text that is empty or has only white space and newlines,
\* parseDiff returns the empty sequence, and parseBlamePorcelain returns
\* the empty sequence and raises nothing.
WhiteSpace == {" ", "\t", "\r", "\f"}

OnlyWhiteSpace(text) ==
  \A k \in 1..Len(text) : \A c \in 1..Len(text[k]) : text[k][c] \in WhiteSpace

C13_BlankGivesEmpty ==
  /\ (parseDone /\ OnlyWhiteSpace(diffText)) => parsed = <<>>
  /\ (blameDone /\ OnlyWhiteSpace(blameText)) =>
       (blamed.lines = <<>> /\ ~blamed.threw)

C13_Witness ==
  /\ parseDone
  /\ blameDone
  /\ diffText = <<LSpaces, LTab, LEmpty>>
  /\ blameText = <<LSpaces, LTab, LEmpty>>
  /\ parsed = <<>>
  /\ blamed = [threw |-> FALSE, lines |-> <<>>]

\* ------------------------------------------------------------------------
\* Properties of the blame parser (checked under SpecBlame)
\* ------------------------------------------------------------------------
TabLines(text) == {k \in 1..Len(text) : text[k] # <<>> /\ text[k][1] = "\t"}

\* C20: parseBlamePorcelain emits no more records than the text has
\* tab-prefixed lines, so a block whose header is followed by no
\* tab-prefixed line before the end of the input emits no record.
C20_NoContentNoRecord ==
  (blameDone /\ ~blamed.threw) =>
    Len(blamed.lines) <= Cardinality(TabLines(blameText))

\* the blocks of a text: h is the line of a header met where a block is
\* expected, e the first tab-prefixed line after it (one past the last
\* line when there is none)
ContentLineAfter(text, h) ==
  IF \E k \in (h + 1)..Len(text) : StartsWith(text[k], TAB)
  THEN CHOOSE k \in (h + 1)..Len(text) :
         /\ StartsWith(text[k], TAB)
         /\ \A q \in (h + 1)..(k - 1) : ~StartsWith(text[q], TAB)
  ELSE Len(text) + 1

RECURSIVE BlockSpansFrom(_, _)
BlockSpansFrom(text, i) ==
  IF i > Len(text) THEN <<>>
  ELSE IF ~blameHeaderMatch(text[i]).ok THEN BlockSpansFrom(text, i + 1)
  ELSE <<[h |-> i, e |-> ContentLineAfter(text, i)]>>
         \o BlockSpansFrom(text, ContentLineAfter(text, i) + 1)

BlockSpans(text) == BlockSpansFrom(text, 1)

\* the lines of a block that carry a key, and the value of the last of them
KeyLines(text, span, key) ==
  {k \in (span.h + 1)..(span.e - 1) : StartsWith(text[k], key)}

LastValue(text, span, key) ==
  IF KeyLines(text, span, key) = {} THEN <<>>
  ELSE LET last == CHOOSE k \in KeyLines(text, span, key) :
                     \A q \in KeyLines(text, span, key) : q <= k
       IN Substring(text[last], Len(key))

TimeOf(value) ==
  LET n == parseIntPrefix(value)
  IN ToISOString(IF n.neg THEN 0 - n.abs ELSE n.abs)

\* C22: in every emitted record a metadata field is empty when its key is on
\* no line between the block's header and its content line, and otherwise
\* comes from the last such line of that block; sha and short_sha are the
\* first 40 and the first 7 characters of the block's header.
C22_FieldsFromOwnBlock ==
  (blameDone /\ ~blamed.threw) =>
    LET spans == BlockSpans(blameText)
    IN /\ Len(blamed.lines) = Len(spans)
       /\ \A k \in 1..Len(spans) :
            LET c == blamed.lines[k].commit
                sp == spans[k]
            IN /\ c.sha = SubSeq(blameText[sp.h], 1, SHA_LEN)
               /\ c.short_sha = SubSeq(blameText[sp.h], 1, SHORT_SHA_LEN)
               /\ c.author_name = LastValue(blameText, sp, KEY_AUTHOR)
               /\ c.author_email = StripAngles(LastValue(blameText, sp, KEY_AUTHOR_MAIL))
               /\ c.author_time =
                    (IF KeyLines(blameText, sp, KEY_AUTHOR_TIME) = {} THEN <<>>
                     ELSE TimeOf(LastValue(blameText, sp, KEY_AUTHOR_TIME)))
               /\ c.summary = LastValue(blameText, sp, KEY_SUMMARY)

C22_Witness ==
  /\ blameDone
  /\ blameText = <<BHdrA, BAuthor, BTabC, BHdrB, BTabC>>
  /\ Len(blamed.lines) = 2
  /\ blamed.lines[1].commit.author_name = <<"A">>
  /\ blamed.lines[1].commit.short_sha = <<"a","a","a","a","a","a","a">>
  /\ blamed.lines[2].commit.author_name = <<>>
  /\ blamed.lines[2].commit.author_email = <<>>
  /\ blamed.lines[2].commit.author_time = <<>>
  /\ blamed.lines[2].commit.summary = <<>>
  /\ blamed.lines[2].commit.short_sha = <<"1","2","3","4","5","6","7">>

\* the lines met where a block is expected that are no header
SkippedLines(text) ==
  {k \in 1..Len(text) :
     \A j \in 1..Len(BlockSpans(text)) :
        k < BlockSpans(text)[j].h \/ k > BlockSpans(text)[j].e}

\* header, metadata lines that are no header, one tab-prefixed line
WellFormedSpan(text, span) ==
  /\ span.e <= Len(text)
  /\ \A k \in (span.h + 1)..(span.e - 1) : ~blameHeaderMatch(text[k]).ok

\* C23: when the parser returns, the records are those of the blocks that
\* start where a block is expected, one each and in the order of the text,
\* so the lines skipped there emit nothing; the record of a well-formed
\* block has the block's sha, final line number and content.
C23_SkipsNonHeaders ==
  (blameDone /\ ~blamed.threw) =>
    LET spans == BlockSpans(blameText)
    IN /\ Len(blamed.lines) = Len(spans)
       /\ \A k \in 1..Len(spans) :
            WellFormedSpan(blameText, spans[k]) =>
              /\ blamed.lines[k].commit.sha = blameHeaderMatch(blameText[spans[k].h]).sha
              /\ blamed.lines[k].line_number =
                   parseInt(blameHeaderMatch(blameText[spans[k].h]).g3)
              /\ blamed.lines[k].content = Substring(blameText[spans[k].e], 1)

C23_Witness ==
  /\ blameDone
  /\ blameText = <<BHdrA, BTabC, BOther, BHdrB, BTabC>>
  /\ SkippedLines(blameText) = {3}
  /\ Len(blamed.lines) = 2
  /\ blamed.lines[1].commit.sha = SHA_A
  /\ blamed.lines[1].line_number = 1
  /\ blamed.lines[2].commit.sha = SHA_B
  /\ blamed.lines[2].line_number = 2
  /\ blamed.lines[2].content = <<"c">>

\* the lines that match the header pattern, and those of them that lie
\* after a recognised header and before its tab-prefixed line
HeaderLike(text) == {k \in 1..Len(text) : blameHeaderMatch(text[k]).ok}

InnerHeaders(text, span) ==
  {k \in (span.h + 1)..(span.e - 1) : blameHeaderMatch(text[k]).ok}

AllInnerHeaders(text) ==
  UNION {InnerHeaders(text, BlockSpans(text)[j]) : j \in 1..Len(BlockSpans(text))}

\* C27: when the parser returns, a line that matches the header pattern
\* after a recognised header and before that header's tab-prefixed line
\* starts no record, and the record emitted at the tab-prefixed line has the
\* sha and line number of the first header, the content of that line, and
\* for each key the value of the last line of the block that carries it.
C27_HeaderInsideBlock ==
  (blameDone /\ ~blamed.threw) =>
    LET spans == BlockSpans(blameText)
    IN /\ Len(blamed.lines) =
            Cardinality(HeaderLike(blameText)) - Cardinality(AllInnerHeaders(blameText))
       /\ \A k \in 1..Len(spans) :
            (spans[k].e <= Len(blameText) /\ InnerHeaders(blameText, spans[k]) # {}) =>
              LET first == blameHeaderMatch(blameText[spans[k].h])
                  rec == blamed.lines[k]
              IN /\ rec.commit.sha = first.sha
                 /\ rec.line_number = parseInt(first.g3)
                 /\ rec.content = Substring(blameText[spans[k].e], 1)
                 /\ rec.commit.author_name = LastValue(blameText, spans[k], KEY_AUTHOR)
                 /\ rec.commit.author_email =
                      StripAngles(LastValue(blameText, spans[k], KEY_AUTHOR_MAIL))
                 /\ rec.commit.summary = LastValue(blameText, spans[k], KEY_SUMMARY)

C27_Witness ==
  /\ blameDone
  /\ blameText = <<BHdrB, BAuthor, BHdrA, BAuthorB, BTabC>>
  /\ Len(blamed.lines) = 1
  /\ blamed.lines[1].commit.sha = SHA_B
  /\ blamed.lines[1].line_number = 2
  /\ blamed.lines[1].commit.author_name = <<"B">>
  /\ blamed.lines[1].content = <<"c">>

\* C21: parseBlamePorcelain returns and raises nothing, whatever the text,
\* a recognised key with a malformed value included.
C21_NeverRaises == blameDone => ~blamed.threw

\* ------------------------------------------------------------------------
\* Properties of the assembler (checked under SpecAssemble)
\* ------------------------------------------------------------------------
StagedParse == parseDiff(stagedRun.stdout)
UnstagedParse == parseDiff(unstagedRun.stdout)
Assembled == asmDone /\ asmResult.ok /\ stagedRun.failure = "none" /\ unstagedRun.failure = "none"

PathsOf(entries) == {entries[k].file_path : k \in 1..Len(entries)}

\* all hunks an input holds for a path, over all its entries, in order
RECURSIVE HunksOf(_, _)
HunksOf(entries, path) ==
  IF entries = <<>> THEN <<>>
  ELSE (IF Head(entries).file_path = path THEN Head(entries).hunks ELSE <<>>)
         \o HunksOf(Tail(entries), path)

\* UTF-16 code units of the characters that occur in paths
CodeUnit(c) ==
  CASE c = " " -> 32 [] c = "/" -> 47 [] c = "A" -> 65 [] c = "B" -> 66
    [] c = "a" -> 97 [] c = "b" -> 98 [] c = "d" -> 100 [] c = "e" -> 101
    [] c = "l" -> 108 [] c = "n" -> 110 [] c = "u" -> 117 [] c = "v" -> 118
    [] c = "x" -> 120 [] c = "y" -> 121

CodeUnitLess(a, b) ==
  CompareWeights([k \in 1..Len(a) |-> CodeUnit(a[k])],
                 [k \in 1..Len(b) |-> CodeUnit(b[k])]) < 0

\* C2: a path present in both parses gets all its staged hunks followed by
\* all its unstaged hunks, each group in source order.
C2_StagedThenUnstaged ==
  Assembled =>
    \A k \in 1..Len(asmResult.changes) :
      LET c == asmResult.changes[k]
      IN (c.file_path \in PathsOf(StagedParse) \cap PathsOf(UnstagedParse))
           => c.hunks = HunksOf(StagedParse, c.file_path)
                          \o HunksOf(UnstagedParse, c.file_path)

\* C3: N distinct paths give N changes with pairwise distinct paths, in
\* ascending order of the comparator, the k-th carrying change-k.
C3_SortedIds ==
  Assembled =>
    LET cs == asmResult.changes
        all == PathsOf(StagedParse) \cup PathsOf(UnstagedParse)
    IN /\ Len(cs) = Cardinality(all)
       /\ PathsOf(cs) = all
       /\ \A i, j \in 1..Len(cs) : i < j => cs[i].file_path # cs[j].file_path
       /\ \A i \in 1..(Len(cs) - 1) :
            localeCompare(cs[i].file_path, cs[i + 1].file_path, locale) < 0
       /\ \A i \in 1..Len(cs) :
            cs[i].id = <<"c","h","a","n","g","e","-", DecimalOfSmall[i]>>

C3_Witness ==
  /\ Assembled
  /\ stagedRun.stdout = FileChunk(PBLower, HunkA) \o FileChunk(PA, HunkA)
  /\ unstagedRun.stdout = FileChunk(PBUpper, HunkB)
  /\ Len(asmResult.changes) = 3
  /\ asmResult.changes[1].file_path = PA

\* C4: the order of the changes is the same under every locale and is the
\* order of plain character-code comparison of the paths.
C4_LocaleIndependent ==
  Assembled =>
    /\ \A loc \in Locales :
         AssembleChanges(stagedRun.stdout, unstagedRun.stdout, loc) = asmResult.changes
    /\ \A i \in 1..(Len(asmResult.changes) - 1) :
         CodeUnitLess(asmResult.changes[i].file_path, asmResult.changes[i + 1].file_path)

\* C5: a path present in only one parse gets exactly the hunks that parse
\* holds for it, in order, also when the parse has several entries for it.
C5_SingleInputUnchanged ==
  Assembled =>
    \A k \in 1..Len(asmResult.changes) :
      LET c == asmResult.changes[k]
      IN /\ (c.file_path \notin PathsOf(UnstagedParse))
              => c.hunks = HunksOf(StagedParse, c.file_path)
         /\ (c.file_path \notin PathsOf(StagedParse))
              => c.hunks = HunksOf(UnstagedParse, c.file_path)

\* ------------------------------------------------------------------------
\* Properties of the server (checked under Spec)
\* ------------------------------------------------------------------------
Resolved == groupResp.done /\ groupResp.outcome # "git-failed"

InSeq(x, sq) == \E k \in 1..Len(sq) : sq[k] = x

IdOfPosition(j) == <<"c","h","a","n","g","e","-", DecimalOfSmall[j]>>

\* C1: an identifier that list_changes issued for a file is, in a later
\* group_changes call, either resolved to a Change for that same file or
\* reported as unknown; it is never resolved to a Change for another file.
C1_StaleIdFails ==
  Resolved =>
    \A k \in 1..Len(groupResp.ids), j \in 1..Len(groupResp.issued) :
      (groupResp.ids[k] = IdOfPosition(j))
        => \/ InSeq([id |-> groupResp.ids[k], file_path |-> groupResp.issued[j]],
                    groupResp.resolved)
           \/ /\ groupResp.result.isError
              /\ InSeq(groupResp.ids[k], groupResp.unknown)

\* C1 (amended): group_changes resolves a requested identifier change-j to
\* the Change at position j of the list it assembles itself, whatever file
\* the identifier denoted when it was issued, and reports as unknown exactly
\* the requested identifiers beyond the end of that list; with an unknown
\* identifier the response is an error without groups.
C1_ResolvesByPosition ==
  Resolved =>
    /\ \A k \in 1..Len(groupResp.ids), j \in 1..Len(DecimalOfSmall) :
         (groupResp.ids[k] = IdOfPosition(j))
           => IF j <= Len(groupResp.current)
              THEN /\ InSeq([id |-> groupResp.ids[k], file_path |-> groupResp.current[j]],
                            groupResp.resolved)
                   /\ ~InSeq(groupResp.ids[k], groupResp.unknown)
              ELSE /\ InSeq(groupResp.ids[k], groupResp.unknown)
                   /\ \A r \in 1..Len(groupResp.resolved) :
                        groupResp.resolved[r].id # groupResp.ids[k]
    /\ (groupResp.unknown # <<>>)
         => /\ groupResp.outcome = "unknown-ids"
            /\ groupResp.result.isError
            /\ groupResp.result.groups = <<>>

C1_Witness ==
  /\ groupResp.done
  /\ groupResp.ids = <<IdOfPosition(1)>>
  /\ groupResp.issued = <<PBLower>>
  /\ groupResp.resolved = <<[id |-> IdOfPosition(1), file_path |-> PA]>>
  /\ ~groupResp.result.isError
  /\ groupResp.result.groups[1].summary = <<"Changes in ", "a">>

\* what the request asks for, told from the list the call assembled: the
\* identifiers of that list are change-1 .. change-n in order
CurrentIds == {IdOfPosition(j) : j \in 1..Len(groupResp.current)}

IsUnknownId(id) == id \notin CurrentIds

UnknownRequested == SelectSeq(groupResp.ids, IsUnknownId)

\* positions of the assembled list whose identifier is requested
RequestedPositions ==
  {j \in 1..Len(groupResp.current) : InSeq(IdOfPosition(j), groupResp.ids)}

NoCalls == [provider |-> 0, embed |-> 0, cluster |-> 0]

\* the identifiers written one after the other, ", " between them
RECURSIVE Listed(_)
Listed(ids) ==
  IF ids = <<>> THEN <<>>
  ELSE IF Len(ids) = 1 THEN ids[1]
  ELSE Listed(SubSeq(ids, 1, Len(ids) - 1)) \o <<",", " ">> \o ids[Len(ids)]

\* C14: a request with at least one identifier that the assembled list
\* does not carry gets one error whose text lists all the unknown
\* identifiers of the request, in request order, and no groups, also when
\* other requested identifiers are valid; neither the provider nor the
\* clustering engine is called.
C14_UnknownIdsError ==
  (Resolved /\ UnknownRequested # <<>>) =>
    /\ groupResp.result.isError
    /\ groupResp.result.groups = <<>>
    /\ groupResp.result.text =
         <<"Unknown change IDs: ">> \o Listed(UnknownRequested)
    /\ groupResp.calls = NoCalls

C14_Witness ==
  /\ groupResp.done
  /\ groupResp.current = <<PA>>
  /\ groupResp.ids = <<IdOfPosition(3), IdOfPosition(2)>>
  /\ groupResp.result.isError
  /\ groupResp.result.text =
       <<"Unknown change IDs: ">> \o IdOfPosition(3) \o <<",", " ">> \o IdOfPosition(2)
  /\ groupResp.result.groups = <<>>

ProviderFailed == groupResp.done /\ groupResp.calls.provider = 1 /\ groupResp.calls.embed = 0

EmbedFailed == groupResp.done /\ groupResp.outcome = "embed-failed"

C16_EmbeddingFailure ==
  /\ ProviderFailed =>
       /\ ~hasKey
       /\ groupResp.result = [isError |-> TRUE, text |-> <<NO_PROVIDER_MESSAGE>>,
                              changes |-> <<>>, groups |-> <<>>]
       /\ groupResp.calls.cluster = 0
  /\ EmbedFailed =>
       /\ groupResp.result = [isError |-> TRUE, text |-> <<groupResp.thrown>>,
                              changes |-> <<>>, groups |-> <<>>]
       /\ groupResp.thrown # ""
       /\ groupResp.calls = [provider |-> 1, embed |-> 1, cluster |-> 0]
  /\ (groupResp.done /\ groupResp.calls.provider = 0) => groupResp.calls = NoCalls
  /\ groupResp.calls.embed <= 1

C16_Witness ==
  /\ EmbedFailed
  /\ Len(groupResp.resolved) = 2
  /\ groupResp.result.isError
  /\ groupResp.result.text = <<"embedding request failed">>
  /\ groupResp.result.groups = <<>>
  /\ groupResp.calls.cluster = 0

\* C17: in a successful response over two or more resolved changes, the
\* groups partition the resolved changes: every resolved id is in exactly
\* one group and once, no group is empty, and no other id is in a group.
GroupedIds == Flatten([g \in 1..Len(groupResp.result.groups) |->
                         groupResp.result.groups[g].change_ids])

C17_GroupsPartition ==
  (groupResp.done /\ ~groupResp.result.isError /\ Cardinality(RequestedPositions) >= 2) =>
    /\ \A j \in RequestedPositions :
         Cardinality({k \in 1..Len(GroupedIds) : GroupedIds[k] = IdOfPosition(j)}) = 1
    /\ \A k \in 1..Len(GroupedIds) :
         \E j \in RequestedPositions : GroupedIds[k] = IdOfPosition(j)
    /\ \A g \in 1..Len(groupResp.result.groups) :
         groupResp.result.groups[g].change_ids # <<>>
    /\ groupResp.result.groups # <<>>

C17_Witness ==
  /\ groupResp.done
  /\ ~groupResp.result.isError
  /\ groupResp.ids = <<IdOfPosition(2), IdOfPosition(1)>>
  /\ Len(groupResp.result.groups) = 1
  /\ groupResp.result.groups[1].change_ids = <<IdOfPosition(1), IdOfPosition(2)>>

WantedBy(p) == {j \in 1..Len(p.current) : InSeq(IdOfPosition(j), p.ids)}

IdsGrouped(resp) == Flatten([g \in 1..Len(resp.result.groups) |->
                               resp.result.groups[g].change_ids])

WithoutCall(i) == SubSeq(pending, 1, i - 1) \o SubSeq(pending, i + 1, Len(pending))

\* the response of the step is the one of suspended call i, made from what
\* that call resolved before it was suspended
AnswersFromSnapshot(i) ==
  LET p == pending[i]
      idsOut == IdsGrouped(groupResp')
  IN /\ pending' = WithoutCall(i)
     /\ groupResp'.done
     /\ groupResp'.ids = p.ids
     /\ groupResp'.current = p.current
     /\ Len(groupResp'.resolved) = Cardinality(WantedBy(p))
     /\ \A k \in 1..Len(groupResp'.resolved) :
          \E j \in WantedBy(p) :
            /\ groupResp'.resolved[k].id = IdOfPosition(j)
            /\ groupResp'.resolved[k].file_path = p.current[j]
     /\ ~groupResp'.result.isError =>
          /\ {idsOut[k] : k \in 1..Len(idsOut)} = {IdOfPosition(j) : j \in WantedBy(p)}
          /\ Len(idsOut) = Cardinality(WantedBy(p))

\* C28: the response of a group_changes call that was suspended on the
\* embedding request is made from the changes the call resolved before the
\* await: in every step in which a suspended call returns, the ids grouped
\* by a successful response are exactly the ids the call requested of the
\* list it assembled itself, each once, with the paths of that list,
\* whatever the repository holds by then and whichever other calls ran or
\* are still suspended; and the other suspended calls are left as they are.
C28_OneSnapshot ==
  [][Len(pending') < Len(pending) =>
       \E i \in 1..Len(pending) : AnswersFromSnapshot(i)]_vars

\* a call that resolved both files returned its two ids while a call made
\* after it, which assembled one file only, is still suspended
C28_Witness ==
  /\ groupResp.done
  /\ ~groupResp.result.isError
  /\ groupResp.calls.cluster = 1
  /\ groupResp.current = <<PA, PBLower>>
  /\ groupResp.ids = <<IdOfPosition(2), IdOfPosition(1)>>
  /\ {GroupedIds[k] : k \in 1..Len(GroupedIds)} = {IdOfPosition(1), IdOfPosition(2)}
  /\ Len(pending) = 1
  /\ pending[1].current = <<PA>>
  /\ pending[1].ids = <<>>
  /\ repo[2] = "clean"

\* ------------------------------------------------------------------------
\* Properties of the clustering engine (checked under SpecCluster)
\* ------------------------------------------------------------------------
InputIndices == 0..(Len(embeddings) - 1)

MembersOf(c) == {clusters[c].indices[k] : k \in 1..Len(clusters[c].indices)}

\* the members a cluster had when index i was processed
Earlier(c, i) == {j \in MembersOf(c) : j < i}

\* the clusters that were open when index i was processed
OpenAt(i) == {c \in 1..Len(clusters) : Earlier(c, i) # {}}

\* the index that opened a cluster
OpenedBy(c) == CHOOSE j \in MembersOf(c) : \A q \in MembersOf(c) : j <= q

RECURSIVE ComponentSum(_, _)
ComponentSum(S, d) ==
  IF S = {} THEN 0
  ELSE LET j == CHOOSE x \in S : TRUE
       IN embeddings[j + 1][d] + ComponentSum(S \ {j}, d)

\* the centroid a cluster had when index i was processed, times the number
\* of its members (the cosine is the same for the mean and for the sum)
CentroidAt(c, i) ==
  [d \in 1..Len(embeddings[i + 1]) |-> ComponentSum(Earlier(c, i), d)]

SimilarityAt(c, i) == cosineSimilarity(embeddings[i + 1], CentroidAt(c, i))

Threshold == [d |-> 4, n |-> 25]

ClusterOf(i) == CHOOSE c \in 1..Len(clusters) : i \in MembersOf(c)

\* C18: every index is in exactly one cluster; index 0 opens the first
\* cluster; a later index i is in the cluster that, among the clusters open
\* when i is processed, has the centroid most similar to vector i, the
\* earliest-opened one among equals, when that similarity is at least the
\* threshold, and otherwise opens a cluster of its own.
C18_GreedyAssignment ==
  clusterDone =>
    /\ \A i \in InputIndices :
         Cardinality({c \in 1..Len(clusters) : i \in MembersOf(c)}) = 1
    /\ \A c \in 1..Len(clusters) :
         /\ MembersOf(c) \subseteq InputIndices
         /\ Cardinality(MembersOf(c)) = Len(clusters[c].indices)
    /\ (Len(embeddings) >= 1) => (0 \in MembersOf(1))
    /\ \A i \in InputIndices \ {0} :
         LET mine == ClusterOf(i)
             meets == {c \in OpenAt(i) : SimGE(SimilarityAt(c, i), Threshold)}
         IN IF meets # {}
            THEN /\ mine \in meets
                 /\ \A c \in OpenAt(i) :
                      /\ SimGE(SimilarityAt(mine, i), SimilarityAt(c, i))
                      /\ (OpenedBy(c) < OpenedBy(mine))
                           => ~SimGE(SimilarityAt(c, i), SimilarityAt(mine, i))
            ELSE OpenedBy(mine) = i

C18_Witness ==
  /\ clusterDone
  /\ embeddings = <<<<3, 1>>, <<1, 3>>, <<1, 1>>, <<1, 0>>>>
  /\ Len(clusters) = 2
  /\ clusters[1].indices = <<0, 2, 3>>
  /\ clusters[2].indices = <<1>>

TextOfThrown(v) ==
  CASE v = ThrownError(<<"g","i","t">>) -> <<"g","i","t">>
    [] v = ThrownError(<<>>) -> <<>>
    [] v = ThrownString(<<"s">>) -> <<"s">>
    [] v = ThrownNumber(42) -> <<"4","2">>
    [] v = ThrownNull -> <<"n","u","l","l">>
    [] v = ThrownUndefined -> <<"u","n","d","e","f","i","n","e","d">>
    [] v = ThrownObject -> <<"[","o","b","j","e","c","t"," ","O","b","j","e","c","t","]">>

\* C24: every call of one of the seven tools in which an operation raised
\* is answered with isError = true, the Error's message or the string form
\* of the thrown value as text, and no structuredContent; and every call
\* made before another one has been answered.
C24_ErrorsReturned ==
  \A k \in 1..Len(toolLog) :
     LET c == toolLog[k]
     IN /\ k < Len(toolLog) => c.answered
        /\ (c.answered /\ c.outcome.failAt # 0) =>
             /\ c.response.isError
             /\ c.response.text = TextOfThrown(c.outcome.thrown)
             /\ ~c.response.structured
        /\ (c.answered /\ c.outcome.failAt = 0) => ~c.response.isError

C24_Witness ==
  /\ Len(toolLog) = 2
  /\ toolLog[1].tool = "blame"
  /\ toolLog[1].outcome = [failAt |-> 1, thrown |-> ThrownString(<<"s">>)]
  /\ toolLog[1].response = [isError |-> TRUE, text |-> <<"s">>, structured |-> FALSE]
  /\ toolLog[2].tool = "group_changes"
  /\ toolLog[2].outcome = [failAt |-> 3, thrown |-> ThrownError(<<"g","i","t">>)]
  /\ toolLog[2].answered
  /\ toolLog[2].response = [isError |-> TRUE, text |-> <<"g","i","t">>, structured |-> FALSE]

\* ------------------------------------------------------------------------
\* Properties of getLog (checked under SpecLog)
\* ------------------------------------------------------------------------
IsInteger(x) == x.kind = "finite" /\ x.num % x.den = 0

\* C25: the count getLog gives git is an integer within 1..200: the limit
\* when that is an integer in 1..200, 1 when the limit is below 1, 200 when
\* it is above 200, and 20 when no limit is given.
C25_CountInRange ==
  logDone =>
    LET limit == logArgs.limit
        count == logResult.count
    IN /\ IsInteger(count)
       /\ count.num \div count.den \in MIN_LIMIT..MAX_LIMIT
       /\ limit.kind = "absent" => count = Num(DEFAULT_LIMIT)
       /\ (IsInteger(limit) /\ limit.num \div limit.den \in MIN_LIMIT..MAX_LIMIT) =>
            count = limit
       /\ LessThan(limit, MIN_LIMIT) => count = Num(MIN_LIMIT)
       /\ GreaterThan(limit, MAX_LIMIT) => count = Num(MAX_LIMIT)

\* the commits whose records make up a git log output
WrittenIn(text) == CHOOSE w \in WrittenLogs : LogText(w) = text

\* C26: for an output of k records in the declared format parseLogOutput
\* returns the k commits written, in the order of the text, whichever of
\* their fields are empty; a commit without parents has parents = [].
C26_OneCommitPerRecord ==
  (logDone /\ logResult.ok) => logResult.commits = WrittenIn(logRaw.stdout)

\* ------------------------------------------------------------------------
\* Properties of one getUncommittedChanges call under index updates
\* (checked under SpecSnapshot)
\* ------------------------------------------------------------------------
\* the files whose hunk was uncommitted at every read of the call
UncommittedThroughout ==
  {f \in RepoFiles : \A k \in 1..Len(reads) : reads[k].repo[f] # "clean"}

ChangesOf(f) ==
  {k \in 1..Len(asmResult.changes) : asmResult.changes[k].file_path = RepoPathOrder[f]}

\* C30: the list a getUncommittedChanges call returns holds each hunk that
\* was uncommitted throughout the call exactly once, whatever index
\* updates ran between its two diff reads; and when the staged read
\* fails, the unstaged read is not made and no Change is returned.
C30_SingleState ==
  asmDone =>
    /\ asmResult.ok =>
         \A f \in UncommittedThroughout :
           /\ Cardinality(ChangesOf(f)) = 1
           /\ \A k \in ChangesOf(f) :
                /\ Len(asmResult.changes[k].hunks) = 1
                /\ asmResult.changes[k].hunks[1].header = HunkA[1]
    /\ stagedRun.failure # "none" =>
         /\ Len(reads) = 1
         /\ ~asmResult.ok
         /\ asmResult.changes = <<>>

====
